---- MODULE Spec2Model ----
(***************************************************************************)
(* Verification model of indexeddb-fast-search.                            *)
(*                                                                         *)
(*   Spec       IndexedDBManager (src/src/db.ts): lazy open, schema        *)
(*              reconciliation in onupgradeneeded, versionchange, blocked, *)
(*              close, and the operations of FastIndexedDB up to the       *)
(*              point where they hold a transaction.                       *)
(*   SpecRange  FastIndexedDB.findByIndexRange (src/src/core.ts): the      *)
(*              cursor loop with offset / limit.                           *)
(*   SpecWrite  FastIndexedDB.add/put/delete/clear (src/src/core.ts):      *)
(*              Promise.all over the request and the transaction.          *)
(*                                                                         *)
(* The storage engine (IndexedDB) is modelled by its contract: open        *)
(* requests of one database are served in order, an upgrade waits until    *)
(* every other connection is closed, an aborted upgrade restores the       *)
(* database, index cursors walk (key, primary key) order.                  *)
(***************************************************************************)
EXTENDS Integers, Sequences, FiniteSets, TLC

\* ------------------------------------------------------------------ bounds
MaxTasks == 2      \* operations of FastIndexedDB in flight at once
MaxReqs == 2       \* open requests issued to the engine in one run
MaxVersion == 2    \* highest database version a client asks for
MaxRecords == 4    \* records in the index a range query walks
MaxLimit == 2      \* highest finite `limit` of a range query
MaxOffset == 2     \* highest `offset` of a range query
MaxKey == 2        \* primary keys of the store the write operations use
MaxLiveRecords == 2  \* records in the index of the termination check
MaxOpens == 3      \* opens of one manager in one window
MaxBuilderRecords == 2  \* records in the store a QueryBuilder queries

\* `private db: IDBDatabase | null = null`: the null handle
Null == 0

Tasks == 1..MaxTasks
Versions == 1..MaxVersion

\* ------------------------------------------------------- schema declarations
\* A key path is a sequence of field names: one field, or several (an array
\* key path).
IsArrayKeyPath(keyPath) == Len(keyPath) > 1

\* IndexSchema {name, keyPath, options: {unique, multiEntry}}
IndexSchema(name, keyPath, unique, multiEntry) ==
    [name |-> name, keyPath |-> keyPath, unique |-> unique, multiEntry |-> multiEntry]

\* StoreSchema {name, keyPath, autoIncrement, indexes?}; hasIndexes is the
\* truthiness of `storeSchema.indexes` (an empty array is truthy, an omitted
\* list is not).
StoreSchema(name, keyPath, autoIncrement, hasIndexes, indexes) ==
    [name |-> name, keyPath |-> keyPath, autoIncrement |-> autoIncrement,
     hasIndexes |-> hasIndexes, indexes |-> indexes]

ByAge == IndexSchema("by_age", <<"age">>, FALSE, FALSE)
ByAgeUnique == IndexSchema("by_age", <<"age", "id">>, TRUE, FALSE)
ByCity == IndexSchema("by_city", <<"city">>, FALSE, FALSE)
\* multiEntry with an array key path: createIndex throws InvalidAccessError
ByTagsBad == IndexSchema("by_tags", <<"tags", "id">>, FALSE, TRUE)

\* The `users` store of tests/core.test.ts with its index on `age`.
TestSchema == <<StoreSchema("users", <<"id">>, TRUE, TRUE, <<ByAge>>)>>

\* The schema declarations a client may be constructed with.
Schemas ==
    { TestSchema,
      <<StoreSchema("users", <<"id">>, TRUE, FALSE, <<>>)>>,
      <<StoreSchema("users", <<"id">>, TRUE, TRUE, <<>>)>>,
      <<StoreSchema("users", <<"id">>, FALSE, TRUE, <<ByAgeUnique, ByCity>>),
        StoreSchema("products", <<"sku">>, FALSE, FALSE, <<>>)>>,
      <<StoreSchema("products", <<"sku">>, FALSE, TRUE, <<ByCity, ByTagsBad>>)>> }

\* ------------------------------------------------------------------- state
VARIABLES
    db,                \* IndexedDBManager.db: Null or a connection
    dbVersion,         \* IndexedDBManager.dbVersion
    stores,            \* IndexedDBManager.stores: the declared schema
    persistedVersion,  \* engine: version of the database
    persistedStores,   \* engine: store name -> [keyPath, autoIncrement, indexes,
                       \* records], records being the primary keys in the store
    conns,             \* engine: connections ever created, in order
    reqs,              \* engine: open requests ever issued, in order
    tasks,             \* operations of FastIndexedDB in flight, by slot
    outcome,           \* the operation that settled last, and how
    reconciled,        \* history: committed runs of the reconciler, by target version
    index,             \* engine: the indexed field of each record, by primary key
    options,           \* findByIndexRange: query, direction, limit, offset
    cursor,            \* engine: position of the cursor request, 0 when none,
                       \* CursorFailed once it reported an error
    results,           \* findByIndexRange: `results`
    count,             \* findByIndexRange: `count`
    advanced,          \* findByIndexRange: `advanced`
    rangeCall,         \* the promise findByIndexRange returns
    objectStore,       \* engine: committed primary keys of the store
    write,             \* the write operation in flight: [op, key]
    request,           \* engine: the request of the write operation
    transaction,       \* engine: the transaction of the write operation
    requestPromise,    \* promisifyRequest(request)
    transactionPromise,\* promisifyTransaction(transaction)
    writeCall,         \* the promise the write operation returns
    window,            \* the window: IS_CLOSING_DB and its beforeunload listeners
    managers,          \* the IndexedDBManager instances created in the window
    builder,           \* QueryBuilder: indexName, query, options
    terminal,          \* the terminal operation of the builder awaited last, and its result
    puts               \* two put calls on one key: their state, and the engine's
                       \* readwrite transactions on the store in creation order

connVars == <<db, dbVersion, stores, persistedVersion, persistedStores, conns, reqs,
              tasks, outcome, reconciled>>

rangeVars == <<index, options, cursor, results, count, advanced, rangeCall>>

writeVars == <<objectStore, write, request, transaction, requestPromise,
               transactionPromise, writeCall>>

windowVars == <<window, managers>>

builderVars == <<builder, terminal>>

vars == <<connVars, rangeVars, writeVars, windowVars, puts, builderVars>>

\* ------------------------------------------------------ schema reconciler
\* storeSchema.indexes.map(idx => idx.name), this.stores.map(s => s.name)
NamesOf(seq) == {seq[i].name : i \in 1..Len(seq)}

\* IDBDatabase.createObjectStore throws ConstraintError when the name exists
\* and InvalidAccessError for autoIncrement with an array key path.
CreateObjectStoreThrows(st, storeSchema) ==
    \/ storeSchema.name \in DOMAIN st
    \/ storeSchema.autoIncrement /\ IsArrayKeyPath(storeSchema.keyPath)

\* db.createObjectStore(storeSchema.name, {keyPath, autoIncrement})
CreateObjectStore(st, storeSchema) ==
    (storeSchema.name :> [keyPath |-> storeSchema.keyPath,
                          autoIncrement |-> storeSchema.autoIncrement,
                          indexes |-> <<>>, records |-> {}]) @@ st

\* IDBObjectStore.createIndex throws ConstraintError when the name exists and
\* InvalidAccessError for multiEntry with an array key path.
CreateIndexThrows(store, indexSchema) ==
    \/ indexSchema.name \in DOMAIN store.indexes
    \/ indexSchema.multiEntry /\ IsArrayKeyPath(indexSchema.keyPath)

\* store.createIndex(indexSchema.name, indexSchema.keyPath, indexSchema.options)
CreateIndex(store, indexSchema) ==
    [store EXCEPT !.indexes =
        (indexSchema.name :> [keyPath |-> indexSchema.keyPath,
                              unique |-> indexSchema.unique,
                              multiEntry |-> indexSchema.multiEntry]) @@ @]

\* existingIndexNames.forEach(n => if (!desiredIndexNames.includes(n)) store.deleteIndex(n))
DeleteStaleIndexes(store, desiredIndexNames) ==
    [store EXCEPT !.indexes =
        [n \in (DOMAIN store.indexes) \cap desiredIndexNames |-> store.indexes[n]]]

\* storeSchema.indexes.forEach: create every declared index whose name is not
\* in existingIndexNames (the names read before anything was deleted); the
\* loop ends at the first createIndex that throws.
RECURSIVE CreateNewIndexes(_, _, _, _)
CreateNewIndexes(store, existingIndexNames, indexes, i) ==
    IF i > Len(indexes) THEN [store |-> store, threw |-> FALSE]
    ELSE IF indexes[i].name \in existingIndexNames
         THEN CreateNewIndexes(store, existingIndexNames, indexes, i + 1)
         ELSE IF CreateIndexThrows(store, indexes[i])
              THEN [store |-> store, threw |-> TRUE]
              ELSE CreateNewIndexes(CreateIndex(store, indexes[i]),
                                    existingIndexNames, indexes, i + 1)

ManageIndexesRecreate(store, storeSchema) ==
    IF ~storeSchema.hasIndexes THEN [store |-> store, threw |-> FALSE]
    ELSE CreateNewIndexes([store EXCEPT !.indexes = <<>>], {}, storeSchema.indexes, 1)

\* `if (storeSchema.indexes) { ... }`: the index set of one store
ManageIndexes(store, storeSchema) ==
    IF ~storeSchema.hasIndexes THEN [store |-> store, threw |-> FALSE]
    ELSE CreateNewIndexes(DeleteStaleIndexes(store, NamesOf(storeSchema.indexes)),
                          DOMAIN store.indexes, storeSchema.indexes, 1)

ReuseObjectStoreRedeclared(st, storeSchema) ==
    [st EXCEPT ![storeSchema.name].keyPath = storeSchema.keyPath,
               ![storeSchema.name].autoIncrement = storeSchema.autoIncrement]

\* store = transaction.objectStore(storeSchema.name): the existing store is
\* taken as it is, the declared keyPath and autoIncrement are not read.
ReuseObjectStore(st, storeSchema) == st

\* existingStoreNames.forEach(n => if (!desiredStoreNames.includes(n)) db.deleteObjectStore(n))
DeleteStaleStores(st, desiredStoreNames) ==
    [n \in (DOMAIN st) \cap desiredStoreNames |-> st[n]]

\* this.stores.forEach: create or reuse each declared store, then manage its
\* indexes; the loop ends at the first call that throws, with the changes
\* made so far in place.
RECURSIVE UpdateStores(_, _, _, _)
UpdateStores(st, existingStoreNames, schema, i) ==
    IF i > Len(schema) THEN [stores |-> st, threw |-> FALSE]
    ELSE LET storeSchema == schema[i]
             isNew == storeSchema.name \notin existingStoreNames
         IN  IF isNew /\ CreateObjectStoreThrows(st, storeSchema)
             THEN [stores |-> st, threw |-> TRUE]
             ELSE LET st1 == IF isNew THEN CreateObjectStore(st, storeSchema)
                             ELSE ReuseObjectStore(st, storeSchema)
                      managed == ManageIndexes(st1[storeSchema.name], storeSchema)
                      st2 == [st1 EXCEPT ![storeSchema.name] = managed.store]
                  IN  IF managed.threw THEN [stores |-> st2, threw |-> TRUE]
                      ELSE UpdateStores(st2, existingStoreNames, schema, i + 1)

ReconcileFromScratch(st, schema) == UpdateStores(<<>>, {}, schema, 1)

\* The try block of onupgradeneeded: the stores of the database after the
\* schema management ran over `st`, and whether a call threw on the way.
Reconcile(st, schema) ==
    UpdateStores(DeleteStaleStores(st, NamesOf(schema)), DOMAIN st, schema, 1)

CatchRejectsOnly(threw) == FALSE

\* The catch block of onupgradeneeded: `transaction.abort()` marks the upgrade
\* transaction as aborted when the schema management threw.
CatchAborts(threw) == threw

RequestedVersionBumped(version, persisted) ==
    IF persisted < MaxVersion THEN persisted + 1 ELSE persisted

\* indexedDB.open(this.dbName, this.dbVersion): the version asked for
RequestedVersion(version, persisted) == version

\* ----------------------------------------------------------- engine helpers
StoreNames == {"users", "products"}

ReqIds == 1..MaxReqs

NewConn(owner) == [owner |-> owner, closed |-> FALSE]

OpenConns(cs) == {c \in 1..Len(cs) : ~cs[c].closed}

\* Open requests of one database are served one at a time, in the order issued.
Unfinished == {r \in 1..Len(reqs) : reqs[r].phase # "done"}
IsHead(r) == r \in Unfinished /\ \A q \in Unfinished : r <= q

\* Promise continuations run before the next engine event is delivered: no
\* event handler runs while an operation is between getDB and db.transaction.
NoMicrotask == \A t \in Tasks : tasks[t].pc # "haveDB"

IdleTask == [pc |-> "idle", req |-> Null, handle |-> Null, assigns |-> FALSE]

NoOutcome == [pc |-> "none", error |-> "none"]

NewRequest(task, version) ==
    [task |-> task, version |-> version, phase |-> "queued",
     promise |-> "pending", reason |-> "none", conn |-> Null, vcPending |-> {},
     vcClosed |-> {}, oldVersion |-> 0, oldStores |-> <<>>, threw |-> FALSE,
     aborted |-> FALSE]

\* A request the engine is done with: nothing of it is read again.
Done(req) == [NewRequest(0, 0) EXCEPT !.phase = "done"]

\* ------------------------------------------------------- IndexedDBManager
\* isConnectionAlive(): `this.db.objectStoreNames.length >= 0` is true whenever
\* the getter returns; the probe is false only for a null handle or when the
\* getter throws.
IsConnectionAlive(handle, getterThrows) ==
    IF handle = Null THEN FALSE ELSE ~getterThrows

\* close(): `if (this.db) { this.db.close(); this.db = null; }`, as the pair
\* of the handle and the engine's connections after the call.
CloseKeepsHandle(handle, cs) ==
    IF handle # Null
    THEN [db |-> handle,
          conns |-> [cs EXCEPT ![handle].closed = TRUE]]
    ELSE [db |-> handle, conns |-> cs]

Close(handle, cs) ==
    IF handle # Null
    THEN [db |-> Null,
          conns |-> [cs EXCEPT ![handle].closed = TRUE]]
    ELSE [db |-> handle, conns |-> cs]

OnVersionChangeWarnOnly(handle, cs) == [db |-> handle, conns |-> cs]

\* this.db.onversionchange = () => { console.warn(...); this.close(); }
OnVersionChange(handle, cs) == Close(handle, cs)

\* db.transaction(storeNames, mode): InvalidStateError on a closed connection,
\* NotFoundError for a store the database does not have.
TransactionError(handle, store, cs, st) ==
    IF cs[handle].closed THEN "InvalidStateError"
    ELSE IF store \notin DOMAIN st THEN "NotFoundError"
    ELSE "none"

\* An operation that holds connection `handle` goes on to
\* `db.transaction(store, mode)`: it holds a transaction, or rejects.
Continue(handle, store, cs, st) ==
    LET err == TransactionError(handle, store, cs, st)
    IN  [pc |-> IF err = "none" THEN "tx" ELSE "rejected", error |-> err]

SettleAgain(req, result, reason) ==
    [req EXCEPT !.promise = result, !.reason = reason]

\* reject(...) / resolve(...) of the promise of openDB: a settled promise
\* keeps its first outcome.
Settle(req, result, reason) ==
    IF req.promise = "pending"
    THEN [req EXCEPT !.promise = result, !.reason = reason]
    ELSE req

\* request.onerror: reject(`Database error: ...`)
OnError(req) == Settle(req, "rejected", "Database error")

OnBlockedWarnOnly(req) == req

\* request.onblocked: reject('Database connection is blocked. ...')
OnBlocked(req) == Settle(req, "rejected", "Database connection is blocked")

\* request.onsuccess: resolve(this.db)
OnSuccess(req) == Settle(req, "resolved", "none")

\* The catch block of onupgradeneeded: reject(`Schema upgrade failed: ...`)
OnUpgradeThrow(req) == Settle(req, "rejected", "Schema upgrade failed")

\* The operations awaiting the promise of request r.
Awaiting(r) == {t \in Tasks : tasks[t].pc = "opening" /\ tasks[t].req = r}

\* A handler of request r settled its promise as in `req`: the operation
\* awaiting it resumes. `await this.openDB()` throws the reason, or getDB
\* assigns the connection c and getTransaction goes on to db.transaction.
ResumeTasks(r, req) ==
    [t \in Tasks |-> IF t \in Awaiting(r) /\ req.promise # "pending"
                     THEN IdleTask ELSE tasks[t]]

ResumeOutcome(r, req, c, store, cs, st) ==
    IF Awaiting(r) = {} \/ req.promise = "pending" THEN outcome
    ELSE IF req.promise = "rejected"
         THEN [pc |-> "rejected", error |-> req.reason]
         ELSE Continue(c, store, cs, st)

\* getDB(), called by an operation through getTransaction: reuse the handle,
\* or issue indexedDB.open when there is none. With a handle whose probe
\* fails, openDB resolves with that same handle (`if (this.db) resolve(this.db)`)
\* and getDB assigns it back after the await.
Call(t) ==
    /\ tasks[t].pc = "idle"
    /\ \A u \in Tasks : tasks[u].pc = "idle" => t <= u
    /\ \E getterThrows \in (IF db # Null /\ conns[db].closed THEN BOOLEAN ELSE {FALSE}) :
          IF ~(db = Null \/ ~IsConnectionAlive(db, getterThrows))
          THEN /\ tasks' = [tasks EXCEPT ![t] = [IdleTask EXCEPT !.pc = "haveDB",
                                                                 !.handle = db]]
               /\ UNCHANGED reqs
          ELSE IF db # Null
          THEN /\ tasks' = [tasks EXCEPT ![t] = [IdleTask EXCEPT !.pc = "haveDB",
                                                   !.handle = db, !.assigns = TRUE]]
               /\ UNCHANGED reqs
          ELSE /\ Len(reqs) < MaxReqs
               /\ reqs' = Append(reqs, NewRequest(t,
                              RequestedVersion(dbVersion, persistedVersion)))
               /\ tasks' = [tasks EXCEPT ![t] = [IdleTask EXCEPT !.pc = "opening",
                                                   !.req = Len(reqs) + 1]]
    /\ UNCHANGED <<db, dbVersion, stores, persistedVersion, persistedStores, conns,
                   outcome, reconciled>>
    /\ UNCHANGED <<rangeVars, writeVars, windowVars, puts, builderVars>>

\* The continuation of getTransaction for an operation that found a handle:
\* `this.db = await this.openDB()` when it went through openDB, then
\* `db.transaction(storeNames, mode)`; the operation settles.
Transaction(t, store) ==
    /\ tasks[t].pc = "haveDB"
    /\ outcome' = Continue(tasks[t].handle, store, conns, persistedStores)
    /\ tasks' = [tasks EXCEPT ![t] = IdleTask]
    /\ db' = IF tasks[t].assigns THEN tasks[t].handle ELSE db
    /\ UNCHANGED <<dbVersion, stores, persistedVersion, persistedStores, conns, reqs,
                   reconciled>>
    /\ UNCHANGED <<rangeVars, writeVars, windowVars, puts, builderVars>>

\* FastIndexedDB.close() -> IndexedDBManager.close()
MgrClose ==
    /\ db' = Close(db, conns).db
    /\ conns' = Close(db, conns).conns
    /\ UNCHANGED <<dbVersion, stores, persistedVersion, persistedStores, reqs, tasks,
                   outcome, reconciled>>
    /\ UNCHANGED <<rangeVars, writeVars, windowVars, puts, builderVars>>

\* `new FastIndexedDB(dbName, version, stores)` after the previous instance
\* was closed and is at rest (the upgrade test: close, then a new instance
\* with the next version and schema).
Reconstruct(version, schema) ==
    /\ db = Null
    /\ \A t \in Tasks : tasks[t].pc = "idle"
    /\ \A r \in Unfinished : reqs[r].task = 0
    /\ \A c \in OpenConns(conns) : conns[c].owner # "mgr"
    /\ version > dbVersion
    /\ dbVersion' = version
    /\ stores' = schema
    /\ outcome' = NoOutcome
    /\ UNCHANGED <<db, persistedVersion, persistedStores, conns, reqs, tasks, reconciled>>
    /\ UNCHANGED <<rangeVars, writeVars, windowVars, puts, builderVars>>

\* ------------------------------------------ engine events and their handlers
NeedsUpgradeOrEqual(version, persisted) == version >= persisted

\* indexedDB.open(this.dbName, this.dbVersion): the engine starts an upgrade
\* (versionchange, upgradeneeded) only for a version above the persisted one.
NeedsUpgrade(version, persisted) == version > persisted

\* The open request asks for a lower version than the database has: the
\* engine fires `error` (VersionError); request.onerror rejects.
EngOpenError(r) ==
    /\ NoMicrotask /\ IsHead(r)
    /\ reqs[r].phase = "queued" /\ reqs[r].version < persistedVersion
    /\ LET req == IF reqs[r].task # 0 THEN OnError(reqs[r]) ELSE reqs[r]
       IN  /\ reqs' = [reqs EXCEPT ![r] = Done(req)]
           /\ tasks' = ResumeTasks(r, req)
           /\ outcome' = ResumeOutcome(r, req, Null, "users", conns, persistedStores)
    /\ UNCHANGED <<db, dbVersion, stores, persistedVersion, persistedStores, conns,
                   reconciled>>
    /\ UNCHANGED <<rangeVars, writeVars, windowVars, puts, builderVars>>

\* The request needs an upgrade while other connections are open: the engine
\* queues `versionchange` for each of them.
EngQueueVersionChange(r) ==
    /\ NoMicrotask /\ IsHead(r)
    /\ reqs[r].phase = "queued" /\ NeedsUpgrade(reqs[r].version, persistedVersion)
    /\ OpenConns(conns) # {}
    /\ reqs' = [reqs EXCEPT ![r].phase = "versionchange",
                            ![r].vcPending = OpenConns(conns)]
    /\ UNCHANGED <<db, dbVersion, stores, persistedVersion, persistedStores, conns,
                   tasks, outcome, reconciled>>
    /\ UNCHANGED <<rangeVars, writeVars, windowVars, puts, builderVars>>

\* `versionchange` is delivered to connection c. On a connection of the
\* manager, `this.db.onversionchange = () => this.close()` runs; a sibling
\* client closes its connection or ignores the event.
EngVersionChange(r, c) ==
    /\ NoMicrotask /\ IsHead(r)
    /\ reqs[r].phase = "versionchange" /\ c \in reqs[r].vcPending
    /\ IF conns[c].owner = "mgr"
       THEN /\ db' = OnVersionChange(db, conns).db
            /\ conns' = OnVersionChange(db, conns).conns
       ELSE /\ \E closes \in BOOLEAN :
                  conns' = [conns EXCEPT ![c].closed = @ \/ closes]
            /\ UNCHANGED db
    /\ reqs' = [reqs EXCEPT ![r].vcPending = @ \ {c},
                            ![r].vcClosed = @ \cup (OpenConns(conns) \ OpenConns(conns'))]
    /\ UNCHANGED <<dbVersion, stores, persistedVersion, persistedStores, tasks,
                   outcome, reconciled>>
    /\ UNCHANGED <<rangeVars, writeVars, windowVars, puts, builderVars>>

\* Every `versionchange` was delivered and a connection is still open: the
\* engine fires `blocked`; request.onblocked rejects.
EngBlocked(r) ==
    /\ NoMicrotask /\ IsHead(r)
    /\ reqs[r].phase = "versionchange" /\ reqs[r].vcPending = {}
    /\ OpenConns(conns) # {}
    /\ LET req == IF reqs[r].task # 0 THEN OnBlocked(reqs[r]) ELSE reqs[r]
       IN  /\ reqs' = [reqs EXCEPT ![r] = [req EXCEPT !.phase = "blocked"]]
           /\ tasks' = ResumeTasks(r, req)
           /\ outcome' = ResumeOutcome(r, req, Null, "users", conns, persistedStores)
    /\ UNCHANGED <<db, dbVersion, stores, persistedVersion, persistedStores, conns,
                   reconciled>>
    /\ UNCHANGED <<rangeVars, writeVars, windowVars, puts, builderVars>>

\* No other connection is open: the engine creates the connection, starts
\* the upgrade transaction with the new version and fires `upgradeneeded`.
\* request.onupgradeneeded of the manager runs the schema management; when it
\* throws, the catch block aborts the transaction and rejects. A sibling
\* client's upgrade leaves the stores as they are.
EngUpgradeNeeded(r) ==
    /\ NoMicrotask /\ IsHead(r)
    /\ \/ reqs[r].phase = "queued" /\ NeedsUpgrade(reqs[r].version, persistedVersion)
       \/ reqs[r].phase \in {"versionchange", "blocked"} /\ reqs[r].vcPending = {}
    /\ OpenConns(conns) = {}
    /\ LET mine == reqs[r].task # 0
           res == IF mine THEN Reconcile(persistedStores, stores)
                  ELSE [stores |-> persistedStores, threw |-> FALSE]
           started == [reqs[r] EXCEPT !.phase = "upgrading", !.conn = Len(conns) + 1,
                                      !.vcClosed = {},
                                      !.oldVersion = persistedVersion,
                                      !.oldStores = persistedStores,
                                      !.threw = res.threw,
                                      !.aborted = res.threw /\ CatchAborts(res.threw)]
           req == IF res.threw THEN OnUpgradeThrow(started) ELSE started
       IN  /\ conns' = Append(conns, NewConn(IF mine THEN "mgr" ELSE "sib"))
           /\ persistedVersion' = reqs[r].version
           /\ persistedStores' = res.stores
           /\ reqs' = [reqs EXCEPT ![r] = req]
           /\ tasks' = ResumeTasks(r, req)
           /\ outcome' = ResumeOutcome(r, req, Null, "users", conns, persistedStores)
    /\ UNCHANGED <<db, dbVersion, stores, reconciled>>
    /\ UNCHANGED <<rangeVars, writeVars, windowVars, puts, builderVars>>

\* The upgrade transaction commits (`complete`).
EngUpgradeCommit(r) ==
    /\ NoMicrotask /\ IsHead(r)
    /\ reqs[r].phase = "upgrading" /\ ~reqs[r].aborted
    /\ reqs' = [reqs EXCEPT ![r].phase = "committed"]
    /\ reconciled' = IF reqs[r].task # 0
                     THEN [reconciled EXCEPT ![reqs[r].version] = @ + 1]
                     ELSE reconciled
    /\ UNCHANGED <<db, dbVersion, stores, persistedVersion, persistedStores, conns,
                   tasks, outcome>>
    /\ UNCHANGED <<rangeVars, writeVars, windowVars, puts, builderVars>>

\* The upgrade transaction was aborted: the engine restores the version and
\* the stores, closes the connection and fires `error` (AbortError) at the
\* request; request.onerror rejects.
EngUpgradeAbort(r) ==
    /\ NoMicrotask /\ IsHead(r)
    /\ reqs[r].phase = "upgrading" /\ reqs[r].aborted
    /\ persistedVersion' = reqs[r].oldVersion
    /\ persistedStores' = reqs[r].oldStores
    /\ conns' = [conns EXCEPT ![reqs[r].conn].closed = TRUE]
    /\ LET req == IF reqs[r].task # 0 THEN OnError(reqs[r]) ELSE reqs[r]
       IN  /\ reqs' = [reqs EXCEPT ![r] = Done(req)]
           /\ tasks' = ResumeTasks(r, req)
           /\ outcome' = ResumeOutcome(r, req, Null, "users", conns, persistedStores)
    /\ UNCHANGED <<db, dbVersion, stores, reconciled>>
    /\ UNCHANGED <<rangeVars, writeVars, windowVars, puts, builderVars>>

\* The engine fires `success`. request.onsuccess of the manager stores the
\* connection in this.db and resolves; the awaiting operation continues in
\* getDB (`this.db = await this.openDB()`) and getTransaction
\* (`db.transaction(...)`) before any other event is delivered.
EngOpenSuccess(r) ==
    /\ NoMicrotask /\ IsHead(r)
    /\ \/ reqs[r].phase = "queued" /\ reqs[r].version = persistedVersion
       \/ reqs[r].phase = "committed"
    /\ \E store \in StoreNames :
       LET mine == reqs[r].task # 0
           fresh == reqs[r].conn = Null
           c == IF fresh THEN Len(conns) + 1 ELSE reqs[r].conn
           cs == IF fresh THEN Append(conns, NewConn(IF mine THEN "mgr" ELSE "sib"))
                 ELSE conns
           req == IF mine THEN OnSuccess(reqs[r]) ELSE reqs[r]
       IN  /\ conns' = cs
           /\ db' = IF mine THEN c ELSE db
           /\ reqs' = [reqs EXCEPT ![r] = Done(req)]
           /\ tasks' = ResumeTasks(r, req)
           /\ outcome' = ResumeOutcome(r, req, c, store, cs, persistedStores)
    /\ UNCHANGED <<dbVersion, stores, persistedVersion, persistedStores, reconciled>>
    /\ UNCHANGED <<rangeVars, writeVars, windowVars, puts, builderVars>>

\* The engine closes the connection the manager holds on its own (storage
\* cleared, backing store failure): no handler of the manager runs.
EngForceClose(c) ==
    /\ NoMicrotask
    /\ c \in OpenConns(conns) /\ c = db
    /\ conns' = [conns EXCEPT ![c].closed = TRUE]
    /\ UNCHANGED <<db, dbVersion, stores, persistedVersion, persistedStores, reqs,
                   tasks, outcome, reconciled>>
    /\ UNCHANGED <<rangeVars, writeVars, windowVars, puts, builderVars>>

\* The sibling client (another tab), when it has no connection and no open
\* request of its own, opens the database at some version.
SibOpen(version) ==
    /\ NoMicrotask
    /\ Len(reqs) < MaxReqs
    /\ \A r \in Unfinished : reqs[r].task # 0
    /\ \A c \in OpenConns(conns) : conns[c].owner # "sib"
    /\ reqs' = Append(reqs, NewRequest(0, version))
    /\ UNCHANGED <<db, dbVersion, stores, persistedVersion, persistedStores, conns,
                   tasks, outcome, reconciled>>
    /\ UNCHANGED <<rangeVars, writeVars, windowVars, puts, builderVars>>

\* The sibling client closes its connection.
SibClose(c) ==
    /\ NoMicrotask
    /\ c \in OpenConns(conns) /\ conns[c].owner = "sib"
    /\ \A r \in Unfinished : reqs[r].conn # c
    /\ conns' = [conns EXCEPT ![c].closed = TRUE]
    /\ UNCHANGED <<db, dbVersion, stores, persistedVersion, persistedStores, reqs,
                   tasks, outcome, reconciled>>
    /\ UNCHANGED <<rangeVars, writeVars, windowVars, puts, builderVars>>

\* ------------------------------------------------- promises (core.ts helpers)
Pending == [state |-> "pending", reason |-> "none"]

Resolved == [state |-> "resolved", reason |-> "none"]

Rejected(reason) == [state |-> "rejected", reason |-> reason]

\* resolve(value)
ResolvedWith(value) == [state |-> "resolved", reason |-> "none", value |-> value]

\* No call was made yet.
NotCalled == [state |-> "none", reason |-> "none"]

\* A promise settles once: resolve and reject after that do nothing.
SettleOnce(promise, result) == IF promise.state = "pending" THEN result ELSE promise

\* ------------------------------------------------ FastIndexedDB.findByIndexRange
\* `limit = Infinity`: the default of options.limit
Infinity == -1

Ages == {25, 30, 40}

Directions == {"next", "prev", "nextunique", "prevunique"}

\* options.query: null (the whole index), IDBKeyRange.bound(25, 35), IDBKeyRange.only(30)
KeyRange(lower, upper) == [all |-> FALSE, lower |-> lower, upper |-> upper]

NullQuery == [all |-> TRUE, lower |-> 0, upper |-> 0]

Queries == {NullQuery, KeyRange(25, 35), KeyRange(30, 30)}

Limits == (0..MaxLimit) \cup {Infinity}

Offsets == 0..MaxOffset

\* const { query = null, direction = 'next', limit = Infinity, offset = 0 } = options || {}
DefaultOptions ==
    [query |-> NullQuery, direction |-> "next", limit |-> Infinity, offset |-> 0]

Indexes == UNION {[1..n -> Ages] : n \in 0..MaxRecords}

Includes(query, key) == query.all \/ (query.lower <= key /\ key <= query.upper)

\* The records of the index inside the range, by primary key.
InRange(idx, query) == {id \in 1..Len(idx) : Includes(query, idx[id])}

\* Index order: by key, records of one key by primary key.
Precedes(idx, a, b) == idx[a] < idx[b] \/ (idx[a] = idx[b] /\ a <= b)

RECURSIVE Ascending(_, _)
Ascending(idx, ids) ==
    IF ids = {} THEN <<>>
    ELSE LET first == CHOOSE a \in ids : \A b \in ids : Precedes(idx, a, b)
         IN  <<[id |-> first, age |-> idx[first]]>> \o Ascending(idx, ids \ {first})

Reverse(seq) == [i \in 1..Len(seq) |-> seq[Len(seq) + 1 - i]]

EveryOfKey(idx, ids) == ids

\* Of the records of one key, the unique directions keep the one with the
\* lowest primary key.
FirstOfKey(idx, ids) == {a \in ids : \A b \in ids : idx[b] = idx[a] => a <= b}

\* index.openCursor(query, direction): the records the cursor visits, in order.
CursorSequence(idx, query, direction) ==
    LET ids == InRange(idx, query)
    IN  CASE direction = "next" -> Ascending(idx, ids)
          [] direction = "prev" -> Reverse(Ascending(idx, ids))
          [] direction = "nextunique" -> Ascending(idx, FirstOfKey(idx, ids))
          [] direction = "prevunique" -> Reverse(Ascending(idx, FirstOfKey(idx, ids)))

Visited == CursorSequence(index, options.query, options.direction)

\* The cursor request after its `error` event: no further event follows.
CursorFailed == -1

SkipsThroughOffset(adv, offset) == adv <= offset

\* if (advanced < offset)
Skips(adv, offset) == adv < offset

WithinLimitInclusive(cnt, limit) == limit = Infinity \/ cnt <= limit

\* else if (count < limit)
WithinLimit(cnt, limit) == limit = Infinity \/ cnt < limit

CollectInFront(res, value) == <<value>> \o res

\* results.push(cursor.value as T)
Collect(res, value) == Append(res, value)

OnCursorErrorResolvesPartial(call, partial) == SettleOnce(call, ResolvedWith(partial))

\* cursorRequest.onerror: reject(cursorRequest.error); `results` is dropped.
OnCursorError(call, partial) == SettleOnce(call, Rejected("cursorRequest.error"))

OnCursorEndRejects(call, res) == SettleOnce(call, Rejected("no more records"))

\* `else { resolve(results); }`: the cursor is null, no more records.
OnCursorEnd(call, res) == SettleOnce(call, ResolvedWith(res))

\* findByIndexRange(storeName, indexName, options), one call: the counters
\* start at 0 and index.openCursor(query, direction) issues the cursor request.
FindByIndexRange(query, direction, limit, offset) ==
    /\ rangeCall = NotCalled /\ cursor = 0
    /\ options' = [query |-> query, direction |-> direction, limit |-> limit,
                   offset |-> offset]
    /\ results' = <<>>
    /\ count' = 0
    /\ advanced' = 0
    /\ cursor' = 1
    /\ rangeCall' = Pending
    /\ UNCHANGED <<index, connVars, writeVars, windowVars, puts, builderVars>>

\* cursorRequest.onsuccess: the cursor is on a record, or null past the end.
CursorOnSuccess ==
    /\ cursor > 0
    /\ IF cursor <= Len(Visited)
       THEN IF Skips(advanced, options.offset)
            THEN /\ advanced' = advanced + 1
                 /\ cursor' = cursor + 1
                 /\ UNCHANGED <<results, count, rangeCall>>
            ELSE IF WithinLimit(count, options.limit)
            THEN /\ results' = Collect(results, Visited[cursor])
                 /\ count' = count + 1
                 /\ cursor' = cursor + 1
                 /\ UNCHANGED <<advanced, rangeCall>>
            ELSE /\ rangeCall' = SettleOnce(rangeCall, ResolvedWith(results))
                 /\ cursor' = 0
                 /\ UNCHANGED <<results, count, advanced>>
       ELSE /\ rangeCall' = OnCursorEnd(rangeCall, results)
            /\ cursor' = 0
            /\ UNCHANGED <<results, count, advanced>>
    /\ UNCHANGED <<index, options, connVars, writeVars, windowVars, puts, builderVars>>

\* cursorRequest.onerror: reject(cursorRequest.error)
CursorOnError ==
    /\ cursor > 0
    /\ rangeCall' = OnCursorError(rangeCall, results)
    /\ cursor' = CursorFailed
    /\ UNCHANGED <<index, options, results, count, advanced, connVars, writeVars, windowVars, puts, builderVars>>

\* ---------------------------------- FastIndexedDB.add, put, get, delete, clear
Keys == 1..MaxKey

WriteOps == {"add", "put", "delete", "clear"}

ReadOps == {"get"}

\* transaction.error when the transaction did not commit: null, or an error.
AbortErrors == {"none", "QuotaExceededError", "ConstraintError"}

\* The key-path shapes of a store: keyPath 'id', keyPath ['id', 'email'], and
\* keyPath 'id' with autoIncrement (the `users` store of the tests).
Shapes == {"single", "composite", "auto"}

Emails == {"alice@example.com", "bob@example.com"}

\* The key-path property is omitted from the data (autoIncrement stores).
NoId == 0

Records == [id : Keys, email : Emails]

\* The data a caller passes to add and put.
Inputs(shape) ==
    Records \cup (IF shape = "auto"
                  THEN [id : {NoId}, email : Emails]
                  ELSE {})

NoData == [id |-> NoId, email |-> "none"]

\* `undefined`: the result of a get of a key the store does not have.
Undefined == [id |-> NoId, email |-> "undefined"]

NoKey == <<>>

\* The key of a record: the value at the key path of its store.
KeyOf(shape, rec) ==
    IF shape = "composite" THEN <<rec.id, rec.email>> ELSE <<rec.id>>

AllKeys(shape) == {KeyOf(shape, rec) : rec \in Records}

NoPrev == [op |-> "none", data |-> NoData, key |-> NoKey, call |-> NotCalled]

NoWrite == [op |-> "none", data |-> NoData, key |-> NoKey, prev |-> NoPrev]

EmptyStore(shape) == [shape |-> shape, records |-> {}, generator |-> 1]

StoredWithoutKey(store, data) == data

\* The record the engine stores: the data, with the key of the key generator
\* at the key path when the data has none.
Stored(store, data) ==
    IF data.id = NoId THEN [data EXCEPT !.id = store.generator] ELSE data

\* The key generator after the record is stored: past the key it generated,
\* and past an explicit key that is not below it.
Generated(store, data) ==
    IF store.shape # "auto" THEN store.generator
    ELSE IF data.id = NoId THEN store.generator + 1
    ELSE IF data.id >= store.generator THEN data.id + 1
    ELSE store.generator

KeyExists(store, key) == \E rec \in store.records : KeyOf(store.shape, rec) = key

UniqueIgnored(store, rec) == FALSE

\* The unique index by_email: another record of the store has the email.
UniqueViolated(store, rec) ==
    \E other \in store.records :
        /\ KeyOf(store.shape, other) # KeyOf(store.shape, rec)
        /\ other.email = rec.email

KeepFirst(store, rec) ==
    IF KeyExists(store, KeyOf(store.shape, rec))
    THEN store.records
    ELSE store.records \cup {rec}

\* store.put(data): the record replaces the one stored under its key.
Replace(store, rec) ==
    {other \in store.records : KeyOf(store.shape, other) # KeyOf(store.shape, rec)}
        \cup {rec}

RemoveAll(store, key) == {}

\* store.delete(key)
Remove(store, key) == {rec \in store.records : KeyOf(store.shape, rec) # key}

\* store.get(key): the record under the key, or undefined.
Lookup(store, key) ==
    IF KeyExists(store, key)
    THEN CHOOSE rec \in store.records : KeyOf(store.shape, rec) = key
    ELSE Undefined

\* What the request of the operation does to the store.
Written(store, w) ==
    CASE w.op \in {"add", "put"} ->
            [store EXCEPT !.records = Replace(store, Stored(store, w.data)),
                          !.generator = Generated(store, w.data)]
      [] w.op = "delete" -> [store EXCEPT !.records = Remove(store, w.key)]
      [] w.op = "clear" -> [store EXCEPT !.records = {}]
      [] w.op = "get" -> store

\* request.result
Result(store, w) ==
    CASE w.op \in {"add", "put"} -> KeyOf(store.shape, Stored(store, w.data))
      [] w.op = "get" -> Lookup(store, w.key)
      [] OTHER -> Undefined

\* store.add of a key the store has, and store.add or store.put of a value
\* another record has on a unique index, fail with ConstraintError.
RequestFails(store, w) ==
    /\ w.op \in {"add", "put"}
    /\ \/ w.op = "add" /\ KeyExists(store, KeyOf(store.shape, Stored(store, w.data)))
       \/ UniqueViolated(store, Stored(store, w.data))

\* promisifyRequest(request), followed by `.then(() => {})` in delete and clear.
PromisifyRequest(op, result) ==
    IF op \in {"delete", "clear"} THEN Resolved ELSE ResolvedWith(result)

AwaitRequestOnly(call, requestP, transactionP) == SettleOnce(call, requestP)

\* await Promise.all([requestPromise, transactionPromise]): rejected with the
\* first rejection, resolved when both are; the call returns the result of the
\* request.
AwaitAll(call, requestP, transactionP) ==
    IF call.state # "pending" THEN call
    ELSE IF requestP.state = "rejected" THEN requestP
    ELSE IF transactionP.state = "rejected" THEN transactionP
    ELSE IF requestP.state = "resolved" /\ transactionP.state = "resolved" THEN requestP
    ELSE Pending

\* get: `return await promisifyRequest(request)`, without the transaction; the
\* other operations await both promises.
Returns(op, call, requestP, transactionP) ==
    IF op \in ReadOps
    THEN SettleOnce(call, requestP)
    ELSE AwaitAll(call, requestP, transactionP)

\* transaction.error ?? new Error('Transaction aborted')
AbortReason(error) == IF error = "none" THEN "Transaction aborted" ELSE error

\* add / put / get / delete / clear, once getTransaction returned: the request
\* is placed and the promises are created. `prev` keeps the call before this one.
Write(op, data, key) ==
    /\ writeCall.state # "pending" /\ transaction.state # "active"
    /\ (op \in {"add", "put"} /\ data.id = NoId) => objectStore.generator <= MaxKey
    /\ write' = [op |-> op,
                 data |-> IF op \in {"add", "put"} THEN data ELSE NoData,
                 key |-> IF op \in {"get", "delete"} THEN key ELSE NoKey,
                 prev |-> [op |-> write.op, data |-> write.data,
                           key |-> write.key, call |-> writeCall]]
    /\ request' = [state |-> "pending", error |-> "none"]
    /\ transaction' = [state |-> "active", error |-> "none", store |-> objectStore]
    /\ requestPromise' = Pending
    /\ transactionPromise' = Pending
    /\ writeCall' = Pending
    /\ UNCHANGED <<objectStore, connVars, rangeVars, windowVars, puts, builderVars>>

\* The engine ran the request: `success` at the request. request.onsuccess
\* resolves requestPromise with request.result.
RequestOnSuccess ==
    /\ request.state = "pending" /\ transaction.state = "active"
    /\ ~RequestFails(transaction.store, write)
    /\ request' = [request EXCEPT !.state = "success"]
    /\ transaction' = [transaction EXCEPT !.store = Written(@, write)]
    /\ requestPromise' =
          SettleOnce(requestPromise,
                     PromisifyRequest(write.op, Result(transaction.store, write)))
    /\ writeCall' = Returns(write.op, writeCall, requestPromise', transactionPromise)
    /\ UNCHANGED <<objectStore, write, transactionPromise, connVars, rangeVars, windowVars, puts, builderVars>>

\* The request failed: `error` at the request, which bubbles to the
\* transaction. request.onerror rejects with request.error, then
\* transaction.onerror rejects with transaction.error; the engine goes on to
\* abort the transaction with the error of the request.
RequestOnError ==
    /\ request.state = "pending" /\ transaction.state = "active"
    /\ RequestFails(transaction.store, write)
    /\ request' = [state |-> "error", error |-> "ConstraintError"]
    /\ transaction' = [transaction EXCEPT !.state = "aborting",
                                          !.error = "ConstraintError"]
    /\ requestPromise' = SettleOnce(requestPromise, Rejected("ConstraintError"))
    /\ transactionPromise' = SettleOnce(transactionPromise, Rejected("none"))
    /\ writeCall' = Returns(write.op, writeCall, requestPromise', transactionPromise')
    /\ UNCHANGED <<objectStore, write, connVars, rangeVars, windowVars, puts, builderVars>>

\* The transaction committed: `complete`. transaction.oncomplete resolves.
TransactionOnComplete ==
    /\ transaction.state = "active" /\ request.state = "success"
    /\ transaction' = [transaction EXCEPT !.state = "complete"]
    /\ objectStore' = transaction.store
    /\ transactionPromise' = SettleOnce(transactionPromise, Resolved)
    /\ writeCall' = Returns(write.op, writeCall, requestPromise, transactionPromise')
    /\ UNCHANGED <<write, request, requestPromise, connVars, rangeVars, windowVars, puts, builderVars>>

TransactionOnAbortRetries(error) ==
    /\ \/ transaction.state = "active" /\ request.state = "success"
       \/ transaction.state = "aborting" /\ error = transaction.error
    /\ request' = [state |-> "pending", error |-> "none"]
    /\ transaction' = [state |-> "active", error |-> "none", store |-> objectStore]
    /\ requestPromise' = Pending
    /\ transactionPromise' = Pending
    /\ UNCHANGED <<objectStore, write, writeCall, connVars, rangeVars, windowVars, puts, builderVars>>

\* The transaction did not commit after its request succeeded (the commit
\* failed with an error, or it was aborted without one), or the abort that
\* follows a failed request is carried out: `abort`. transaction.onabort
\* rejects; the store keeps its committed records and its key generator.
TransactionOnAbort(error) ==
    /\ \/ /\ transaction.state = "active" /\ request.state = "success"
          /\ transaction' = [transaction EXCEPT !.state = "aborted", !.error = error]
       \/ /\ transaction.state = "aborting"
          /\ error = transaction.error
          /\ transaction' = [transaction EXCEPT !.state = "aborted"]
    /\ transactionPromise' =
          SettleOnce(transactionPromise, Rejected(AbortReason(transaction'.error)))
    /\ writeCall' = Returns(write.op, writeCall, requestPromise, transactionPromise')
    /\ UNCHANGED <<objectStore, write, request, requestPromise, connVars, rangeVars, windowVars, puts, builderVars>>

\* The connection is closed by the engine while the request is pending: the
\* transaction is aborted. The request gets `error` (AbortError), which
\* bubbles to the transaction, then the transaction gets `abort`.
TransactionOnAbortEarly ==
    /\ transaction.state = "active" /\ request.state = "pending"
    /\ request' = [state |-> "error", error |-> "AbortError"]
    /\ transaction' = [transaction EXCEPT !.state = "aborted", !.error = "AbortError"]
    /\ requestPromise' = SettleOnce(requestPromise, Rejected("AbortError"))
    /\ transactionPromise' = SettleOnce(transactionPromise, Rejected("AbortError"))
    /\ writeCall' = Returns(write.op, writeCall, requestPromise', transactionPromise')
    /\ UNCHANGED <<objectStore, write, connVars, rangeVars, windowVars, puts, builderVars>>

\* --------------------------------------------- the window and its managers
\* IndexedDBManager instances created in one browser window. Each holds its
\* connection in this.db; the window holds the flag IS_CLOSING_DB and the
\* beforeunload listeners, each listener bound to the manager that added it.
Managers == {"a", "b"}

NewManager == [db |-> FALSE, opens |-> 0]

NewWindow == [IS_CLOSING_DB |-> FALSE, listeners |-> [m \in Managers |-> 0]]

\* request.onsuccess of manager m, as the window after it:
\* if (!window.IS_CLOSING_DB) { window.IS_CLOSING_DB = true;
\*                              window.addEventListener('beforeunload', () => this.close()); }
RegisterBeforeUnload(w, m) ==
    IF ~w.IS_CLOSING_DB
    THEN [IS_CLOSING_DB |-> TRUE, listeners |-> [w.listeners EXCEPT ![m] = @ + 1]]
    ELSE w

\* close() of a manager, as the window after it:
\* if (this.db) { ...; if (window.IS_CLOSING_DB) window.IS_CLOSING_DB = false; }
\* No listener is removed.
ResetFlag(w, holdsDb) ==
    IF holdsDb /\ w.IS_CLOSING_DB THEN [w EXCEPT !.IS_CLOSING_DB = FALSE] ELSE w

\* An operation of manager m without a handle: getDB, openDB, and the engine
\* fires `success`; request.onsuccess stores the connection and registers the
\* listener.
ManagerOpen(m) ==
    /\ ~managers[m].db
    /\ managers[m].opens < MaxOpens
    /\ managers' = [managers EXCEPT ![m].db = TRUE, ![m].opens = @ + 1]
    /\ window' = RegisterBeforeUnload(window, m)
    /\ UNCHANGED <<connVars, rangeVars, writeVars, puts, builderVars>>

\* close() of manager m.
ManagerClose(m) ==
    /\ managers' = [managers EXCEPT ![m].db = FALSE]
    /\ window' = ResetFlag(window, managers[m].db)
    /\ UNCHANGED <<connVars, rangeVars, writeVars, puts, builderVars>>

\* The window fires beforeunload: every listener runs close() of its manager.
BeforeUnload ==
    /\ \E m \in Managers : window.listeners[m] > 0
    /\ managers' = [m \in Managers |->
                      IF window.listeners[m] > 0
                      THEN [managers[m] EXCEPT !.db = FALSE] ELSE managers[m]]
    /\ window' = ResetFlag(window, \E m \in Managers :
                                      window.listeners[m] > 0 /\ managers[m].db)
    /\ UNCHANGED <<connVars, rangeVars, writeVars, puts, builderVars>>

WindowAtRest ==
    /\ window = NewWindow
    /\ managers = [m \in Managers |-> NewManager]

\* ------------------------------------------------ two puts on one key
\* put(store, r1) and then put(store, r2) with the same primary key, the
\* second issued without awaiting the first. Call 1 is the first issued.
PutCalls == 1..2

NoPut == [pc |-> "none", data |-> NoData, req |-> Null, handle |-> Null,
          result |-> NotCalled]

NoPuts == [calls |-> [t \in PutCalls |-> NoPut], transactions |-> <<>>]

PutsAtRest == puts = NoPuts

AnyMicrotask(calls) == {t \in PutCalls : calls[t].pc = "haveDB"}

\* `const db = await this.getDB()` in getTransaction: the continuations of
\* the calls that found a handle run in the order the calls were made.
NextMicrotask(calls) ==
    {t \in PutCalls : /\ calls[t].pc = "haveDB"
                      /\ \A u \in PutCalls : calls[u].pc = "haveDB" => t <= u}

\* db.transaction(storeName, 'readwrite') and store.put(data) of call t on
\* connection c: the transaction joins the engine's queue, or db.transaction
\* throws and the call is rejected.
PlacePut(p, t, c, cs, st) ==
    LET err == TransactionError(c, "users", cs, st)
    IN  IF err # "none"
        THEN [p EXCEPT !.calls[t].pc = "done", !.calls[t].result = Rejected(err)]
        ELSE [calls |-> [p.calls EXCEPT ![t].pc = "placed", ![t].handle = c,
                                        ![t].result = Pending],
              transactions |-> Append(p.transactions,
                                      [call |-> t, data |-> p.calls[t].data,
                                       state |-> "active"])]

\* The engine runs readwrite transactions on one store in the order they were
\* created: the first one that is not finished.
Running(transactions) ==
    {i \in 1..Len(transactions) :
        /\ transactions[i].state \in {"active", "written"}
        /\ \A j \in 1..(i - 1) : transactions[j].state \in {"complete", "aborted"}}

\* put(storeName, data): getTransaction -> getDB finds the handle, or openDB
\* issues indexedDB.open.
PutCall(t, data) ==
    /\ puts.calls[t].pc = "none"
    /\ \A u \in PutCalls : u < t =>
          /\ puts.calls[u].pc # "none"
          /\ KeyOf(objectStore.shape, puts.calls[u].data) = KeyOf(objectStore.shape, data)
    /\ IF db # Null /\ IsConnectionAlive(db, FALSE)
       THEN /\ puts' = [puts EXCEPT !.calls[t] =
                          [NoPut EXCEPT !.pc = "haveDB", !.data = data, !.handle = db,
                                        !.result = Pending]]
            /\ UNCHANGED reqs
       ELSE /\ reqs' = Append(reqs, NewRequest(t, RequestedVersion(dbVersion,
                                                                   persistedVersion)))
            /\ puts' = [puts EXCEPT !.calls[t] =
                          [NoPut EXCEPT !.pc = "opening", !.data = data,
                                        !.req = Len(reqs) + 1, !.result = Pending]]
    /\ UNCHANGED <<db, dbVersion, stores, persistedVersion, persistedStores, conns,
                   tasks, outcome, reconciled, rangeVars, writeVars, windowVars, builderVars>>

\* The continuation of getTransaction and put for a call that found a handle.
PutTransaction(t) ==
    /\ t \in NextMicrotask(puts.calls)
    /\ puts' = PlacePut(puts, t, puts.calls[t].handle, conns, persistedStores)
    /\ UNCHANGED <<connVars, rangeVars, writeVars, windowVars, builderVars>>

\* The engine fires `success` at the open request of a call: onsuccess sets
\* this.db and resolves; getDB, getTransaction and put continue before the
\* next event.
PutOpenSuccess(r) ==
    /\ AnyMicrotask(puts.calls) = {}
    /\ IsHead(r) /\ reqs[r].phase = "queued"
    /\ reqs[r].version = persistedVersion
    /\ LET c == Len(conns) + 1
           cs == Append(conns, NewConn("mgr"))
       IN  /\ conns' = cs
           /\ db' = c
           /\ reqs' = [reqs EXCEPT ![r] = Done(OnSuccess(reqs[r]))]
           /\ puts' = PlacePut(puts, reqs[r].task, c, cs, persistedStores)
    /\ UNCHANGED <<dbVersion, stores, persistedVersion, persistedStores, tasks,
                   outcome, reconciled, rangeVars, writeVars, windowVars, builderVars>>

\* The request of the running transaction succeeds.
PutRequestOnSuccess ==
    /\ AnyMicrotask(puts.calls) = {}
    /\ \E i \in Running(puts.transactions) :
          /\ puts.transactions[i].state = "active"
          /\ puts' = [puts EXCEPT !.transactions[i].state = "written"]
    /\ UNCHANGED <<connVars, rangeVars, writeVars, windowVars, builderVars>>

\* The running transaction commits: the record replaces the one under its
\* key; `complete` resolves the call with the key.
PutTransactionOnComplete ==
    /\ AnyMicrotask(puts.calls) = {}
    /\ \E i \in Running(puts.transactions) :
          LET tx == puts.transactions[i]
          IN  /\ tx.state = "written"
              /\ objectStore' = [objectStore EXCEPT !.records = Replace(objectStore, tx.data)]
              /\ puts' = [puts EXCEPT
                            !.transactions[i].state = "complete",
                            !.calls[tx.call].pc = "done",
                            !.calls[tx.call].result =
                                ResolvedWith(KeyOf(objectStore.shape, tx.data))]
    /\ UNCHANGED <<write, request, transaction, requestPromise, transactionPromise,
                   writeCall, connVars, rangeVars, windowVars, builderVars>>

\* The running transaction is aborted (its connection was closed, or the
\* commit failed): the store keeps its records and the call is rejected.
PutTransactionOnAbort ==
    /\ AnyMicrotask(puts.calls) = {}
    /\ \E i \in Running(puts.transactions) :
          LET tx == puts.transactions[i]
          IN  puts' = [puts EXCEPT
                         !.transactions[i].state = "aborted",
                         !.calls[tx.call].pc = "done",
                         !.calls[tx.call].result = Rejected(AbortReason("none"))]
    /\ UNCHANGED <<connVars, rangeVars, writeVars, windowVars, builderVars>>

\* ------------------------------------------- a new QueryBuilder (query-builder.ts)

\* this.query: undefined until a filter method is called, then the value given
\* to equals() or the IDBKeyRange built by the range methods.
NoQuery == [kind |-> "undefined", lower |-> 0, upper |-> 0]

\* private indexName?; private query?; private options: QueryOptions = {}.
\* An omitted limit is Infinity, an omitted offset 0 and an omitted direction
\* the engine's default 'next': the entry point treats each pair alike.
NewBuilder ==
    [indexName |-> "", query |-> NoQuery,
     options |-> [limit |-> Infinity, offset |-> 0, direction |-> "next"]]

NoTerminal == [op |-> "none", array |-> <<>>, number |-> 0]

BuilderAtRest == builder = NewBuilder /\ terminal = NoTerminal

\* ------------------------------------------------------------ specification
ConnInit ==
    /\ db = Null
    /\ persistedVersion = 0
    /\ persistedStores = <<>>
    /\ conns = <<>>
    /\ reqs = <<>>
    /\ tasks = [t \in Tasks |-> IdleTask]
    /\ outcome = NoOutcome
    /\ reconciled = [v \in Versions |-> 0]

\* The test schema of tests/core.test.ts at version 1.
ConnAtRest == ConnInit /\ dbVersion = 1 /\ stores = TestSchema

RangeInit ==
    /\ options = DefaultOptions
    /\ cursor = 0
    /\ results = <<>>
    /\ count = 0
    /\ advanced = 0
    /\ rangeCall = NotCalled

RangeAtRest == RangeInit /\ index = <<>>

WriteInit ==
    /\ write = NoWrite
    /\ request = [state |-> "none", error |-> "none"]
    /\ transaction = [state |-> "none", error |-> "none", store |-> EmptyStore("single")]
    /\ requestPromise = NotCalled
    /\ transactionPromise = NotCalled
    /\ writeCall = NotCalled

WriteAtRest == WriteInit /\ objectStore = EmptyStore("single")

Init ==
    /\ ConnInit
    /\ WindowAtRest
    /\ PutsAtRest
    /\ BuilderAtRest
    /\ dbVersion \in Versions
    /\ stores \in Schemas
    /\ RangeAtRest
    /\ WriteAtRest

Next ==
    \/ \E t \in Tasks : Call(t)
    \/ \E t \in Tasks, store \in StoreNames : Transaction(t, store)
    \/ MgrClose
    \/ \E version \in Versions, schema \in Schemas : Reconstruct(version, schema)
    \/ \E r \in ReqIds : EngOpenError(r)
    \/ \E r \in ReqIds : EngQueueVersionChange(r)
    \/ \E r \in ReqIds, c \in ReqIds : EngVersionChange(r, c)
    \/ \E r \in ReqIds : EngBlocked(r)
    \/ \E r \in ReqIds : EngUpgradeNeeded(r)
    \/ \E r \in ReqIds : EngUpgradeCommit(r)
    \/ \E r \in ReqIds : EngUpgradeAbort(r)
    \/ \E r \in ReqIds : EngOpenSuccess(r)
    \/ \E c \in ReqIds : EngForceClose(c)
    \/ \E version \in Versions : SibOpen(version)
    \/ \E c \in ReqIds : SibClose(c)

Spec == Init /\ [][Next]_vars

\* findByIndexRange on an index of any content, the manager at rest.
InitRange ==
    /\ ConnAtRest
    /\ WindowAtRest
    /\ PutsAtRest
    /\ BuilderAtRest
    /\ WriteAtRest
    /\ RangeInit
    /\ index \in Indexes

NextRange ==
    \/ \E query \in Queries, direction \in Directions, limit \in Limits,
          offset \in Offsets : FindByIndexRange(query, direction, limit, offset)
    \/ CursorOnSuccess
    \/ CursorOnError

SpecRange == InitRange /\ [][NextRange]_vars

\* The same call on the indexes of up to MaxLiveRecords records, where the
\* engine answers every cursor request with `success` or with `error`.
InitRangeLive ==
    /\ ConnAtRest
    /\ WindowAtRest
    /\ PutsAtRest
    /\ BuilderAtRest
    /\ WriteAtRest
    /\ RangeInit
    /\ index \in UNION {[1..n -> Ages] : n \in 0..MaxLiveRecords}

SpecRangeLive ==
    InitRangeLive /\ [][NextRange]_vars /\ WF_vars(CursorOnSuccess \/ CursorOnError)

\* The write operations on a store of any content, the manager at rest.
InitWrite ==
    /\ ConnAtRest
    /\ WindowAtRest
    /\ PutsAtRest
    /\ BuilderAtRest
    /\ RangeAtRest
    /\ WriteInit
    /\ \E shape \in Shapes : objectStore = EmptyStore(shape)

NextWrite ==
    \/ \E op \in {"add", "put"}, data \in Inputs(objectStore.shape) :
          Write(op, data, NoKey)
    \/ \E op \in {"get", "delete"}, key \in AllKeys(objectStore.shape) :
          Write(op, NoData, key)
    \/ Write("clear", NoData, NoKey)
    \/ RequestOnSuccess
    \/ RequestOnError
    \/ TransactionOnComplete
    \/ \E error \in AbortErrors : TransactionOnAbort(error)
    \/ TransactionOnAbortEarly

SpecWrite == InitWrite /\ [][NextWrite]_vars

\* ------------------------------------------ one operation from call to result
\* An operation of FastIndexedDB end to end: getTransaction (getDB, openDB and
\* the engine's open events), then the request on the transaction it got and
\* the engine's events for it. The store `users` holds one record.
SettleStore ==
    [shape |-> "auto", records |-> {[id |-> 1, email |-> "alice@example.com"]},
     generator |-> 2]

InitSettle ==
    /\ ConnAtRest
    /\ WindowAtRest
    /\ PutsAtRest
    /\ BuilderAtRest
    /\ RangeInit
    /\ index = <<30, 25>>
    /\ WriteInit
    /\ objectStore = SettleStore

\* No request was placed on a transaction yet.
NoRequestYet == write = NoWrite /\ rangeCall = NotCalled

\* The operation that got its transaction is the only one in flight and the
\* engine has no open request left to serve.
Alone == Unfinished = {} /\ \A t \in Tasks : tasks[t].pc = "idle"

\* getTransaction and the open events, until an operation places its request.
OpConnect == NoRequestYet /\ Next

\* add / put / get / delete / clear: getTransaction returned the transaction
\* and the operation places its request.
OpWrite(op, data, key) ==
    /\ outcome.pc = "tx" /\ NoRequestYet /\ Alone
    /\ Write(op, data, key)

\* findByIndexRange: getTransaction returned the transaction and the operation
\* opens the cursor.
OpRange(limit, offset) ==
    /\ outcome.pc = "tx" /\ NoRequestYet /\ Alone
    /\ FindByIndexRange(NullQuery, "next", limit, offset)

NextSettle ==
    \/ OpConnect
    \/ \E op \in {"add", "put"}, data \in Inputs(objectStore.shape) :
          OpWrite(op, data, NoKey)
    \/ \E op \in {"get", "delete"}, key \in AllKeys(objectStore.shape) :
          OpWrite(op, NoData, key)
    \/ OpWrite("clear", NoData, NoKey)
    \/ \E limit \in Limits, offset \in Offsets : OpRange(limit, offset)
    \/ RequestOnSuccess
    \/ RequestOnError
    \/ TransactionOnComplete
    \/ \E error \in AbortErrors : TransactionOnAbort(error)
    \/ TransactionOnAbortEarly
    \/ CursorOnSuccess
    \/ CursorOnError

SpecSettle == InitSettle /\ [][NextSettle]_vars

\* --------------------------------------------- upgrades of a database in use
\* One client at a time, as in the upgrade test of tests/core.test.ts: records
\* are written, the instance is closed, a new instance with a higher version
\* and another schema opens the database.
OpOutcome(op, store, indexName, error) ==
    [pc |-> IF error = "none" THEN "resolved" ELSE "rejected", error |-> error,
     op |-> op, store |-> store, index |-> indexName]

\* The first operation of an instance whose version is above the persisted
\* one: indexedDB.open, onupgradeneeded with the schema management, then
\* commit and onsuccess, or abort and onerror when the schema management threw.
Upgrade ==
    /\ dbVersion > persistedVersion
    /\ LET res == Reconcile(persistedStores, stores)
       IN  IF res.threw /\ CatchAborts(res.threw)
           THEN /\ outcome' = OpOutcome("open", "none", "none", "Schema upgrade failed")
                /\ UNCHANGED <<persistedVersion, persistedStores>>
           ELSE /\ outcome' = OpOutcome("open", "none", "none", "none")
                /\ persistedVersion' = dbVersion
                /\ persistedStores' = res.stores
    /\ UNCHANGED <<db, dbVersion, stores, conns, reqs, tasks, reconciled,
                   rangeVars, writeVars, windowVars, puts, builderVars>>

\* put(storeName, data) on the opened database, awaited: db.transaction throws
\* NotFoundError for a store the database does not have.
PutRecord(storeName, key) ==
    /\ dbVersion = persistedVersion
    /\ IF storeName \in DOMAIN persistedStores
       THEN /\ persistedStores' = [persistedStores EXCEPT ![storeName].records = @ \cup {key}]
            /\ outcome' = OpOutcome("put", storeName, "none", "none")
       ELSE /\ outcome' = OpOutcome("put", storeName, "none", "NotFoundError")
            /\ UNCHANGED persistedStores
    /\ UNCHANGED <<db, dbVersion, stores, persistedVersion, conns, reqs, tasks,
                   reconciled, rangeVars, writeVars, windowVars, puts, builderVars>>

\* findByIndex(storeName, indexName, query) on the opened database, awaited:
\* db.transaction or store.index throws NotFoundError for a missing name.
FindByIndex(storeName, indexName) ==
    /\ dbVersion = persistedVersion
    /\ outcome' = OpOutcome("findByIndex", storeName, indexName,
                    IF /\ storeName \in DOMAIN persistedStores
                       /\ indexName \in DOMAIN persistedStores[storeName].indexes
                    THEN "none" ELSE "NotFoundError")
    /\ UNCHANGED <<db, dbVersion, stores, persistedVersion, persistedStores, conns,
                   reqs, tasks, reconciled, rangeVars, writeVars, windowVars, puts, builderVars>>

\* close(), then `new FastIndexedDB(dbName, version, schema)` with a higher
\* version.
Reopen(version, schema) ==
    /\ version > dbVersion
    /\ dbVersion' = version
    /\ stores' = schema
    /\ outcome' = NoOutcome
    /\ UNCHANGED <<db, persistedVersion, persistedStores, conns, reqs, tasks,
                   reconciled, rangeVars, writeVars, windowVars, puts, builderVars>>

IndexNames == {"by_age", "by_city", "by_tags"}

NextUpgrade ==
    \/ Upgrade
    \/ \E storeName \in StoreNames, key \in 1..MaxKey : PutRecord(storeName, key)
    \/ \E storeName \in StoreNames, indexName \in IndexNames :
          FindByIndex(storeName, indexName)
    \/ \E version \in Versions, schema \in Schemas : Reopen(version, schema)

SpecUpgrade == Init /\ [][NextUpgrade]_vars

\* The same, with declarations that give `users` another key path and
\* auto-increment flag than the store was created with.
ReshapeSchemas ==
    Schemas \cup
    { <<StoreSchema("users", <<"email">>, FALSE, TRUE, <<ByAge>>)>>,
      <<StoreSchema("users", <<"id", "email">>, FALSE, FALSE, <<>>)>> }

InitReshape ==
    /\ ConnInit
    /\ WindowAtRest
    /\ PutsAtRest
    /\ BuilderAtRest
    /\ dbVersion \in Versions
    /\ stores \in ReshapeSchemas
    /\ RangeAtRest
    /\ WriteAtRest

NextReshape ==
    \/ Upgrade
    \/ \E storeName \in StoreNames, key \in 1..MaxKey : PutRecord(storeName, key)
    \/ \E storeName \in StoreNames, indexName \in IndexNames :
          FindByIndex(storeName, indexName)
    \/ \E version \in Versions, schema \in ReshapeSchemas : Reopen(version, schema)

SpecReshape == InitReshape /\ [][NextReshape]_vars

\* ------------------------------------- after two opens at once succeeded
\* A fresh manager on which two operations were started at once: both issued
\* an open, the first ran the upgrade, both succeeded and the second
\* connection replaced the first in this.db (Call, Call, EngUpgradeNeeded,
\* EngUpgradeCommit, EngOpenSuccess, EngOpenSuccess). The two finished
\* requests are left out of reqs.
InitTwoOpens ==
    /\ dbVersion = 1
    /\ stores = TestSchema
    /\ persistedVersion = 1
    /\ persistedStores = Reconcile(<<>>, TestSchema).stores
    /\ conns = <<NewConn("mgr"), NewConn("mgr")>>
    /\ db = 2
    /\ reqs = <<>>
    /\ tasks = [t \in Tasks |-> IdleTask]
    /\ outcome = Continue(2, "users", conns, persistedStores)
    /\ reconciled = [v \in Versions |-> IF v = 1 THEN 1 ELSE 0]
    /\ WindowAtRest
    /\ PutsAtRest
    /\ BuilderAtRest
    /\ RangeAtRest
    /\ WriteAtRest

\* What can follow: operations and close() of the manager, and a sibling
\* opening the database; its upgrade sends versionchange to both connections.
NextTwoOpens ==
    \/ \E t \in Tasks : Call(t)
    \/ \E t \in Tasks, store \in StoreNames : Transaction(t, store)
    \/ MgrClose
    \/ \E r \in ReqIds : EngQueueVersionChange(r)
    \/ \E r \in ReqIds, c \in ReqIds : EngVersionChange(r, c)
    \/ \E r \in ReqIds : EngBlocked(r)
    \/ \E r \in ReqIds : EngOpenSuccess(r)
    \/ \E c \in ReqIds : EngForceClose(c)
    \/ \E version \in Versions : SibOpen(version)

SpecTwoOpens == InitTwoOpens /\ [][NextTwoOpens]_vars

\* ---------------------------------------- close() while an open is pending
\* A fresh manager whose first operation issued its open (Call), and close()
\* was called before any event of that open arrived: this.db is null, so
\* close() changed nothing. No operation is issued afterwards.
InitCloseInFlight ==
    /\ dbVersion \in Versions
    /\ stores \in Schemas
    /\ db = Close(Null, <<>>).db
    /\ conns = Close(Null, <<>>).conns
    /\ persistedVersion = 0
    /\ persistedStores = <<>>
    /\ reqs = <<NewRequest(1, RequestedVersion(dbVersion, 0))>>
    /\ tasks = [t \in Tasks |-> IF t = 1 THEN [IdleTask EXCEPT !.pc = "opening", !.req = 1]
                                ELSE IdleTask]
    /\ outcome = NoOutcome
    /\ reconciled = [v \in Versions |-> 0]
    /\ WindowAtRest
    /\ PutsAtRest
    /\ BuilderAtRest
    /\ RangeAtRest
    /\ WriteAtRest

\* The events of that open, further calls of close(), and a sibling client.
NextCloseInFlight ==
    \/ MgrClose
    \/ \E r \in ReqIds : EngQueueVersionChange(r)
    \/ \E r \in ReqIds, c \in ReqIds : EngVersionChange(r, c)
    \/ \E r \in ReqIds : EngUpgradeNeeded(r)
    \/ \E r \in ReqIds : EngUpgradeCommit(r)
    \/ \E r \in ReqIds : EngUpgradeAbort(r)
    \/ \E r \in ReqIds : EngOpenSuccess(r)
    \/ \E c \in ReqIds : EngForceClose(c)
    \/ \E version \in Versions : SibOpen(version)
    \/ \E c \in ReqIds : SibClose(c)

SpecCloseInFlight == InitCloseInFlight /\ [][NextCloseInFlight]_vars

\* ------------------------------------------------ the two puts in order
\* The database exists at version 1 with the store users (key path id); the
\* manager holds an open connection, or none.
InitPuts ==
    /\ dbVersion = 1
    /\ stores = TestSchema
    /\ persistedVersion = 1
    /\ persistedStores = Reconcile(<<>>, TestSchema).stores
    /\ \/ db = Null /\ conns = <<>>
       \/ db = 1 /\ conns = <<NewConn("mgr")>>
    /\ reqs = <<>>
    /\ tasks = [t \in Tasks |-> IdleTask]
    /\ outcome = NoOutcome
    /\ reconciled = [v \in Versions |-> IF v = 1 THEN 1 ELSE 0]
    /\ WindowAtRest
    /\ PutsAtRest
    /\ BuilderAtRest
    /\ RangeAtRest
    /\ WriteAtRest

NextPuts ==
    \/ \E t \in PutCalls, data \in Records : PutCall(t, data)
    \/ \E t \in PutCalls : PutTransaction(t)
    \/ \E r \in ReqIds : PutOpenSuccess(r)
    \/ PutRequestOnSuccess
    \/ PutTransactionOnComplete
    \/ PutTransactionOnAbort
    \/ MgrClose

SpecPuts == InitPuts /\ [][NextPuts]_vars

\* ------------------------------------------------- queries by index name
\* findByIndex, findByIndexRange and countByIndex of core.ts on a manager that
\* holds a handle, each call awaited.
IndexOps == {"findByIndex", "findByIndexRange", "countByIndex"}

\* transaction.objectStore(storeName).index(indexName): NotFoundError for an
\* index the store does not have.
IndexError(storeName, indexName, st) ==
    IF indexName \notin DOMAIN st[storeName].indexes THEN "NotFoundError" ELSE "none"

CatchReturnsEmpty(error) == "none"

\* catch (error) { console.error(...); throw error; }
CatchRethrows(error) == error

\* The error the call rejects with, "none" when it resolves: getTransaction
\* (getDB returns the handle, db.transaction), then objectStore and index,
\* inside the try block; then the request on the index.
QueryError(handle, storeName, indexName, cs, st) ==
    LET txError == TransactionError(handle, storeName, cs, st)
    IN  IF txError # "none" THEN CatchRethrows(txError)
        ELSE CatchRethrows(IndexError(storeName, indexName, st))

\* What the caller of a query saw, and what the call before it ended with.
QueryOutcome(op, storeName, indexName, error, after) ==
    [pc |-> IF error = "none" THEN "resolved" ELSE "rejected", error |-> error,
     op |-> op, store |-> storeName, index |-> indexName, after |-> after]

IndexQuery(op, storeName, indexName) ==
    /\ db # Null
    /\ \A t \in Tasks : tasks[t].pc = "idle"
    /\ outcome' = QueryOutcome(op, storeName, indexName,
                     QueryError(db, storeName, indexName, conns, persistedStores),
                     outcome.error)
    /\ UNCHANGED <<db, dbVersion, stores, persistedVersion, persistedStores, conns,
                   reqs, tasks, reconciled, rangeVars, writeVars, windowVars, puts, builderVars>>

NextQuery ==
    \/ Next
    \/ \E op \in IndexOps, storeName \in StoreNames, indexName \in IndexNames :
          IndexQuery(op, storeName, indexName)

SpecQuery == Init /\ [][NextQuery]_vars

\* Two managers in one window, each opening, closing and reopening its
\* connection, and the window unloading.
InitWindow ==
    /\ ConnAtRest
    /\ WindowAtRest
    /\ PutsAtRest
    /\ BuilderAtRest
    /\ RangeAtRest
    /\ WriteAtRest

NextWindow ==
    \/ \E m \in Managers : ManagerOpen(m)
    \/ \E m \in Managers : ManagerClose(m)
    \/ BeforeUnload

SpecWindow == InitWindow /\ [][NextWindow]_vars

\* ------------------------------------------- the entry point, src/index.ts
\* store.indexes?.forEach(index => objectStore.createIndex(...)): the loop ends
\* at the first createIndex that throws.
RECURSIVE EntryCreateIndexes(_, _, _)
EntryCreateIndexes(store, indexes, i) ==
    IF i > Len(indexes) THEN [store |-> store, threw |-> FALSE]
    ELSE IF CreateIndexThrows(store, indexes[i])
         THEN [store |-> store, threw |-> TRUE]
         ELSE EntryCreateIndexes(CreateIndex(store, indexes[i]), indexes, i + 1)

\* this.schema.forEach(store => { if (!db.objectStoreNames.contains(store.name))
\* { createObjectStore; createIndex for each declared index } }): a store the
\* database has is left alone.
RECURSIVE EntryCreateStores(_, _, _)
EntryCreateStores(st, schema, i) ==
    IF i > Len(schema) THEN [stores |-> st, threw |-> FALSE]
    ELSE LET store == schema[i]
         IN  IF store.name \in DOMAIN st
             THEN EntryCreateStores(st, schema, i + 1)
             ELSE IF CreateObjectStoreThrows(st, store)
                  THEN [stores |-> st, threw |-> TRUE]
                  ELSE LET st1 == CreateObjectStore(st, store)
                           made == EntryCreateIndexes(st1[store.name], store.indexes, 1)
                           st2 == [st1 EXCEPT ![store.name] = made.store]
                       IN  IF made.threw
                           THEN [stores |-> st2, threw |-> TRUE]
                           ELSE EntryCreateStores(st2, schema, i + 1)

\* request.onupgradeneeded of open()
EntryOnUpgradeNeeded(st, schema) == EntryCreateStores(st, schema, 1)

\* The first operation of an instance whose version is above the persisted
\* one: getStore awaits open(); indexedDB.open, onupgradeneeded, then commit and
\* onsuccess. An exception of the handler is not caught: the engine aborts the
\* upgrade and request.onerror rejects with AbortError.
EntryOpen ==
    /\ dbVersion > persistedVersion
    /\ LET res == EntryOnUpgradeNeeded(persistedStores, stores)
       IN  IF res.threw
           THEN /\ outcome' = OpOutcome("open", "none", "none", "AbortError")
                /\ UNCHANGED <<persistedVersion, persistedStores>>
           ELSE /\ outcome' = OpOutcome("open", "none", "none", "none")
                /\ persistedVersion' = dbVersion
                /\ persistedStores' = res.stores
    /\ UNCHANGED <<db, dbVersion, stores, conns, reqs, tasks, reconciled,
                   rangeVars, writeVars, windowVars, puts, builderVars>>

\* put(storeName, data) on the opened database: this.db.transaction in getStore
\* throws NotFoundError for a store the database does not have.
EntryPut(storeName, key) ==
    /\ dbVersion = persistedVersion
    /\ IF storeName \in DOMAIN persistedStores
       THEN /\ persistedStores' = [persistedStores EXCEPT ![storeName].records = @ \cup {key}]
            /\ outcome' = OpOutcome("put", storeName, "none", "none")
       ELSE /\ outcome' = OpOutcome("put", storeName, "none", "NotFoundError")
            /\ UNCHANGED persistedStores
    /\ UNCHANGED <<db, dbVersion, stores, persistedVersion, conns, reqs, tasks,
                   reconciled, rangeVars, writeVars, windowVars, puts, builderVars>>

\* findByIndex(storeName, indexName, query) on the opened database:
\* this.db.transaction or store.index throws NotFoundError for a missing name.
EntryFindByIndex(storeName, indexName) ==
    /\ dbVersion = persistedVersion
    /\ outcome' = OpOutcome("findByIndex", storeName, indexName,
                    IF /\ storeName \in DOMAIN persistedStores
                       /\ indexName \in DOMAIN persistedStores[storeName].indexes
                    THEN "none" ELSE "NotFoundError")
    /\ UNCHANGED <<db, dbVersion, stores, persistedVersion, persistedStores, conns,
                   reqs, tasks, reconciled, rangeVars, writeVars, windowVars, puts, builderVars>>

\* close(), then `new FastIndexedDB(dbName, version, schema)` of the entry
\* point with a higher version.
EntryReopen(version, schema) ==
    /\ version > dbVersion
    /\ dbVersion' = version
    /\ stores' = schema
    /\ outcome' = NoOutcome
    /\ UNCHANGED <<db, persistedVersion, persistedStores, conns, reqs, tasks,
                   reconciled, rangeVars, writeVars, windowVars, puts, builderVars>>

NextEntryOpen ==
    \/ EntryOpen
    \/ \E storeName \in StoreNames, key \in 1..MaxKey : EntryPut(storeName, key)
    \/ \E storeName \in StoreNames, indexName \in IndexNames :
          EntryFindByIndex(storeName, indexName)
    \/ \E version \in Versions, schema \in Schemas : EntryReopen(version, schema)

SpecEntryOpen == Init /\ [][NextEntryOpen]_vars

\* add / put / delete / clear of the entry point, once getStore returned the
\* store of a new transaction: the request is placed and the promise of the
\* call is created. Nothing listens to the transaction.
EntryWrite(op, data, key) ==
    /\ writeCall.state # "pending" /\ transaction.state # "active"
    /\ (op \in {"add", "put"} /\ data.id = NoId) => objectStore.generator <= MaxKey
    /\ write' = [op |-> op,
                 data |-> IF op \in {"add", "put"} THEN data ELSE NoData,
                 key |-> IF op = "delete" THEN key ELSE NoKey,
                 prev |-> NoPrev]
    /\ request' = [state |-> "pending", error |-> "none"]
    /\ transaction' = [state |-> "active", error |-> "none", store |-> objectStore]
    /\ writeCall' = Pending
    /\ UNCHANGED <<objectStore, requestPromise, transactionPromise, connVars, rangeVars, windowVars, puts, builderVars>>

\* request.onsuccess: resolve(request.result) in add and put, resolve() in
\* delete and clear.
EntryRequestOnSuccess ==
    /\ request.state = "pending" /\ transaction.state = "active"
    /\ ~RequestFails(transaction.store, write)
    /\ request' = [request EXCEPT !.state = "success"]
    /\ transaction' = [transaction EXCEPT !.store = Written(@, write)]
    /\ writeCall' = SettleOnce(writeCall,
                        IF write.op \in {"delete", "clear"}
                        THEN Resolved
                        ELSE ResolvedWith(Result(transaction.store, write)))
    /\ UNCHANGED <<objectStore, write, requestPromise, transactionPromise,
                   connVars, rangeVars, windowVars, puts, builderVars>>

\* request.onerror: reject(request.error). The error bubbles to the
\* transaction, which the engine goes on to abort.
EntryRequestOnError ==
    /\ request.state = "pending" /\ transaction.state = "active"
    /\ RequestFails(transaction.store, write)
    /\ request' = [state |-> "error", error |-> "ConstraintError"]
    /\ transaction' = [transaction EXCEPT !.state = "aborting",
                                          !.error = "ConstraintError"]
    /\ writeCall' = SettleOnce(writeCall, Rejected("ConstraintError"))
    /\ UNCHANGED <<objectStore, write, requestPromise, transactionPromise,
                   connVars, rangeVars, windowVars, puts, builderVars>>

\* The transaction committed: `complete`, which has no handler.
EntryTransactionOnComplete ==
    /\ transaction.state = "active" /\ request.state = "success"
    /\ transaction' = [transaction EXCEPT !.state = "complete"]
    /\ objectStore' = transaction.store
    /\ UNCHANGED <<write, request, writeCall, requestPromise, transactionPromise,
                   connVars, rangeVars, windowVars, puts, builderVars>>

\* The transaction did not commit after its request succeeded, or the abort
\* that follows a failed request is carried out: `abort`, which has no
\* handler; the store keeps its committed records.
EntryTransactionOnAbort(error) ==
    /\ \/ /\ transaction.state = "active" /\ request.state = "success"
          /\ transaction' = [transaction EXCEPT !.state = "aborted", !.error = error]
       \/ /\ transaction.state = "aborting"
          /\ error = transaction.error
          /\ transaction' = [transaction EXCEPT !.state = "aborted"]
    /\ UNCHANGED <<objectStore, write, request, writeCall, requestPromise,
                   transactionPromise, connVars, rangeVars, windowVars, puts, builderVars>>

\* The connection is closed by the engine while the request is pending: the
\* request gets `error` (AbortError) and request.onerror rejects.
EntryTransactionOnAbortEarly ==
    /\ transaction.state = "active" /\ request.state = "pending"
    /\ request' = [state |-> "error", error |-> "AbortError"]
    /\ transaction' = [transaction EXCEPT !.state = "aborted", !.error = "AbortError"]
    /\ writeCall' = SettleOnce(writeCall, Rejected("AbortError"))
    /\ UNCHANGED <<objectStore, write, requestPromise, transactionPromise,
                   connVars, rangeVars, windowVars, puts, builderVars>>

NextEntryWrite ==
    \/ \E op \in {"add", "put"}, data \in Inputs(objectStore.shape) :
          EntryWrite(op, data, NoKey)
    \/ \E key \in AllKeys(objectStore.shape) : EntryWrite("delete", NoData, key)
    \/ EntryWrite("clear", NoData, NoKey)
    \/ EntryRequestOnSuccess
    \/ EntryRequestOnError
    \/ EntryTransactionOnComplete
    \/ \E error \in AbortErrors : EntryTransactionOnAbort(error)
    \/ EntryTransactionOnAbortEarly

\* The stores of index.ts have a string key path: keyPath 'id', with or
\* without autoIncrement.
InitEntryWrite ==
    /\ ConnAtRest
    /\ WindowAtRest
    /\ PutsAtRest
    /\ BuilderAtRest
    /\ RangeAtRest
    /\ WriteInit
    /\ \E shape \in {"single", "auto"} : objectStore = EmptyStore(shape)

SpecEntryWrite == InitEntryWrite /\ [][NextEntryWrite]_vars

\* if (options.offset && skipped < options.offset): offset 0 is falsy.
EntrySkips(skipped, offset) == offset # 0 /\ skipped < offset

\* if (options.limit && count >= options.limit): an omitted limit and limit 0
\* are falsy.
EntryLimitReached(cnt, limit) == limit # Infinity /\ limit # 0 /\ cnt >= limit

\* findByIndexRange(storeName, indexName, options) of the entry point, which
\* QueryBuilder.toArray calls with {query, ...options}: results, count and
\* skipped start empty and index.openCursor(options.query, options.direction)
\* issues the cursor request. `advanced` holds `skipped`; limit Infinity is an
\* omitted limit.
EntryFindByIndexRange(query, direction, limit, offset) ==
    /\ rangeCall = NotCalled /\ cursor = 0
    /\ options' = [query |-> query, direction |-> direction, limit |-> limit,
                   offset |-> offset]
    /\ results' = <<>>
    /\ count' = 0
    /\ advanced' = 0
    /\ cursor' = 1
    /\ rangeCall' = Pending
    /\ UNCHANGED <<index, connVars, writeVars, windowVars, puts, builderVars>>

\* request.onsuccess of the entry point's cursor request.
EntryCursorOnSuccess ==
    /\ cursor > 0
    /\ IF cursor <= Len(Visited)
       THEN IF EntrySkips(advanced, options.offset)
            THEN /\ advanced' = advanced + 1
                 /\ cursor' = cursor + 1
                 /\ UNCHANGED <<results, count, rangeCall>>
            ELSE IF EntryLimitReached(count, options.limit)
            THEN /\ rangeCall' = SettleOnce(rangeCall, ResolvedWith(results))
                 /\ cursor' = 0
                 /\ UNCHANGED <<results, count, advanced>>
            ELSE /\ results' = Append(results, Visited[cursor])
                 /\ count' = count + 1
                 /\ cursor' = cursor + 1
                 /\ UNCHANGED <<advanced, rangeCall>>
       ELSE /\ rangeCall' = SettleOnce(rangeCall, ResolvedWith(results))
            /\ cursor' = 0
            /\ UNCHANGED <<results, count, advanced>>
    /\ UNCHANGED <<index, options, connVars, writeVars, windowVars, puts, builderVars>>

\* request.onerror = () => reject(request.error)
EntryCursorOnError ==
    /\ cursor > 0
    /\ rangeCall' = SettleOnce(rangeCall, Rejected("request.error"))
    /\ cursor' = CursorFailed
    /\ UNCHANGED <<index, options, results, count, advanced, connVars, writeVars, windowVars, puts, builderVars>>

NextEntryRange ==
    \/ \E query \in Queries, direction \in Directions, limit \in Limits,
          offset \in Offsets : EntryFindByIndexRange(query, direction, limit, offset)
    \/ EntryCursorOnSuccess
    \/ EntryCursorOnError

SpecEntryRange == InitRange /\ [][NextEntryRange]_vars

\* --------------------------------------- QueryBuilder, src/query-builder.ts

\* The keys of the queried index; 0 is a valid key and falsy in JavaScript.
BuilderKeys == {0, 25, 30}

BuilderIndexes == UNION {[1..n -> BuilderKeys] : n \in 0..MaxBuilderRecords}

\* equals(value) keeps the value; between(lower, upper) builds an IDBKeyRange.
EqualsQuery(value) == [kind |-> "key", lower |-> value, upper |-> value]

BoundQuery(lower, upper) == [kind |-> "range", lower |-> lower, upper |-> upper]

\* The truth value JavaScript gives this.query: undefined and the keys 0 and ''
\* are falsy, every IDBKeyRange object and every other key is truthy.
Truthy(query) == query.kind = "range" \/ (query.kind = "key" /\ query.lower # 0)

\* What the engine makes of the query argument: undefined is every record, a
\* key is the records of that key.
EngineQuery(query) ==
    IF query.kind = "undefined" THEN NullQuery ELSE KeyRange(query.lower, query.upper)

\* The cursor loop of the entry point's findByIndexRange over the sequence the
\* cursor visits: skip while `skipped < offset`, resolve once `count >= limit`,
\* push otherwise.
RECURSIVE EntryWalk(_, _, _, _, _, _, _)
EntryWalk(seq, i, skipped, cnt, res, limit, offset) ==
    IF i > Len(seq) THEN res
    ELSE IF EntrySkips(skipped, offset)
         THEN EntryWalk(seq, i + 1, skipped + 1, cnt, res, limit, offset)
    ELSE IF EntryLimitReached(cnt, limit) THEN res
    ELSE EntryWalk(seq, i + 1, skipped, cnt + 1, Append(res, seq[i]), limit, offset)

\* db.getAll(storeName): every record of the store, by primary key.
GetAll(idx) == [id \in 1..Len(idx) |-> [id |-> id, age |-> idx[id]]]

\* toArray(): findByIndexRange with {query, ...options} when an index is
\* selected, the whole store otherwise.
ToArray(b, idx) ==
    IF b.indexName # ""
    THEN EntryWalk(CursorSequence(idx, EngineQuery(b.query), b.options.direction),
                   1, 0, 0, <<>>, b.options.limit, b.options.offset)
    ELSE GetAll(idx)

\* count(): if (this.indexName && this.query) countByIndex(..., this.query),
\* else db.count(storeName).
Count(b, idx) ==
    IF b.indexName # "" /\ Truthy(b.query)
    THEN Cardinality(InRange(idx, EngineQuery(b.query)))
    ELSE Len(idx)

\* this.limit(1) and this.reverse().limit(1): the builder first() and last()
\* call toArray on.
ForFirst(b) == [b EXCEPT !.options.limit = 1]

ForLast(b) == [b EXCEPT !.options.direction = "prev", !.options.limit = 1]

\* results[0]: the first element, undefined (no element) for an empty result.
First0(found) == IF found = <<>> THEN <<>> ELSE <<found[1]>>

Where ==
    /\ builder' = [builder EXCEPT !.indexName = "by_age"]
    /\ UNCHANGED <<terminal, connVars, rangeVars, writeVars, windowVars, puts>>

Equals(value) ==
    /\ builder' = [builder EXCEPT !.query = EqualsQuery(value)]
    /\ UNCHANGED <<terminal, connVars, rangeVars, writeVars, windowVars, puts>>

Between(lower, upper) ==
    /\ builder' = [builder EXCEPT !.query = BoundQuery(lower, upper)]
    /\ UNCHANGED <<terminal, connVars, rangeVars, writeVars, windowVars, puts>>

Limit(n) ==
    /\ builder' = [builder EXCEPT !.options.limit = n]
    /\ UNCHANGED <<terminal, connVars, rangeVars, writeVars, windowVars, puts>>

Offset(n) ==
    /\ builder' = [builder EXCEPT !.options.offset = n]
    /\ UNCHANGED <<terminal, connVars, rangeVars, writeVars, windowVars, puts>>

BuilderReverse ==
    /\ builder' = [builder EXCEPT !.options.direction = "prev"]
    /\ UNCHANGED <<terminal, connVars, rangeVars, writeVars, windowVars, puts>>

BuilderToArray ==
    /\ terminal' = [op |-> "toArray", array |-> ToArray(builder, index), number |-> 0]
    /\ UNCHANGED <<builder, connVars, rangeVars, writeVars, windowVars, puts>>

BuilderCount ==
    /\ terminal' = [op |-> "count", array |-> <<>>, number |-> Count(builder, index)]
    /\ UNCHANGED <<builder, connVars, rangeVars, writeVars, windowVars, puts>>

BuilderFirst ==
    /\ builder' = ForFirst(builder)
    /\ terminal' = [op |-> "first", array |-> First0(ToArray(builder', index)), number |-> 0]
    /\ UNCHANGED <<connVars, rangeVars, writeVars, windowVars, puts>>

BuilderLast ==
    /\ builder' = ForLast(builder)
    /\ terminal' = [op |-> "last", array |-> First0(ToArray(builder', index)), number |-> 0]
    /\ UNCHANGED <<connVars, rangeVars, writeVars, windowVars, puts>>

\* A store with its records and a new QueryBuilder on it (db.query(storeName)).
InitBuilder ==
    /\ ConnAtRest
    /\ WriteAtRest
    /\ WindowAtRest
    /\ PutsAtRest
    /\ RangeInit
    /\ index \in BuilderIndexes
    /\ builder = NewBuilder
    /\ terminal = NoTerminal

NextBuilder ==
    \/ Where
    \/ \E value \in BuilderKeys : Equals(value)
    \/ Between(0, 25)
    \/ \E n \in 0..MaxLimit : Limit(n)
    \/ \E n \in 1..MaxOffset : Offset(n)
    \/ BuilderReverse
    \/ BuilderToArray
    \/ BuilderCount
    \/ BuilderFirst
    \/ BuilderLast

SpecBuilder == InitBuilder /\ [][NextBuilder]_vars

\* ------------------------------------------------------------------ claims
\* C1: when findByIndexRange resolves, it returns exactly
\* max(0, min(limit, N - offset)) records, N being the number of records the
\* cursor visits for the query and direction (limit Infinity is unbounded),
\* and they are the records at positions offset+1 .. offset+limit of that
\* cursor sequence, in order.
C1_RangeReturnsSlice ==
    rangeCall.state = "resolved" =>
        LET Min(a, b) == IF a < b THEN a ELSE b
            Max(a, b) == IF a > b THEN a ELSE b
            N == Len(Visited)
            expected == IF options.limit = Infinity
                        THEN Max(0, N - options.offset)
                        ELSE Max(0, Min(options.limit, N - options.offset))
        IN  /\ Len(results) = expected
            /\ \A i \in 1..expected : results[i] = Visited[options.offset + i]

\* C1 witness: ages inserted as 30, 25, 30, 40, the whole index ascending
\* with limit 2 and offset 1, resolved with the two records of age 30.
C1_Witness ==
    /\ index = <<30, 25, 30, 40>>
    /\ options = [query |-> NullQuery, direction |-> "next", limit |-> 2, offset |-> 1]
    /\ rangeCall.state = "resolved"
    /\ results = <<[id |-> 1, age |-> 30], [id |-> 3, age |-> 30]>>

\* C3: a write operation resolves only when its request succeeded and its
\* transaction completed; once the transaction is aborting or aborted the call
\* is never resolved; when the request succeeded and the transaction was then
\* aborted, the call is rejected with the error of the transaction, or with
\* 'Transaction aborted' when the transaction has none.
C3_WriteAwaitsCommit ==
    write.op \in WriteOps =>
    /\ writeCall.state = "resolved" =>
            request.state = "success" /\ transaction.state = "complete"
    /\ transaction.state \in {"aborting", "aborted"} => writeCall.state # "resolved"
    /\ (request.state = "success" /\ transaction.state = "aborted") =>
            /\ writeCall.state = "rejected"
            /\ writeCall.reason = IF transaction.error = "none"
                                  THEN "Transaction aborted"
                                  ELSE transaction.error
            /\ objectStore # transaction.store \/ Written(objectStore, write) = objectStore

\* C3 witness: the request of an `add` succeeded, the transaction was aborted
\* without an error, the call is rejected with 'Transaction aborted' and the
\* key is not in the store.
C3_Witness ==
    /\ write.op = "add" /\ request.state = "success"
    /\ transaction.state = "aborted" /\ transaction.error = "none"
    /\ writeCall = Rejected("Transaction aborted")
    /\ ~KeyExists(objectStore, KeyOf(objectStore.shape, write.data))

ManagerReqs == {r \in 1..Len(reqs) : reqs[r].task # 0}

IndexDefinition(indexSchema) ==
    [keyPath |-> indexSchema.keyPath, unique |-> indexSchema.unique,
     multiEntry |-> indexSchema.multiEntry]

\* C2: when an upgrade of the manager has committed, the persisted stores are
\* exactly the declared ones and, for every declared store (also one declared
\* with an empty or omitted index list), the persisted index names are exactly
\* the declared index names; an index that existed before by name keeps its
\* old definition, a new one has the declared definition.
C2_UpgradeYieldsDeclaredSchema ==
    \A r \in ManagerReqs :
        reqs[r].phase = "committed" =>
            /\ DOMAIN persistedStores = NamesOf(stores)
            /\ \A i \in 1..Len(stores) :
                 LET declared == stores[i]
                     persisted == persistedStores[declared.name]
                     old == reqs[r].oldStores
                 IN  /\ DOMAIN persisted.indexes = NamesOf(declared.indexes)
                     /\ \A j \in 1..Len(declared.indexes) :
                          LET idx == declared.indexes[j]
                          IN  persisted.indexes[idx.name] =
                                IF /\ declared.name \in DOMAIN old
                                   /\ idx.name \in DOMAIN old[declared.name].indexes
                                THEN old[declared.name].indexes[idx.name]
                                ELSE IndexDefinition(idx)

\* C4: at most one open request of the manager is in flight (issued and its
\* promise not yet settled) at any time.
C4_SingleInFlightOpen ==
    Cardinality({r \in ManagerReqs : reqs[r].promise = "pending"}) <= 1

C6_ReconciledOncePerVersion ==
    /\ \A v \in Versions : reconciled[v] <= 1 /\ (v > dbVersion => reconciled[v] = 0)
    /\ \A r \in ManagerReqs :
         reqs[r].phase = "committed" =>
            reconciled[reqs[r].version] = 1 /\ reqs[r].version = dbVersion
    /\ (db # Null /\ ~conns[db].closed) => persistedVersion = dbVersion

\* C6 witness: two operations opened the database at once, both opens
\* succeeded (two connections of the manager are open), an operation holds a
\* transaction on the second one, and the reconciler ran once.
C6_Witness ==
    /\ dbVersion = 1 /\ reconciled[1] = 1 /\ persistedVersion = 1
    /\ Cardinality({c \in OpenConns(conns) : conns[c].owner = "mgr"}) >= 2
    /\ db # Null /\ ~conns[db].closed
    /\ outcome.pc = "tx"

\* C7: a step that delivers `versionchange` to the connection the manager
\* holds closes that connection and sets the handle to null.
C7_VersionChangeClosesHandle ==
    [][\A r \in ReqIds, c \in ReqIds :
         (/\ r <= Len(reqs) /\ reqs[r].phase = "versionchange"
          /\ c \in reqs[r].vcPending /\ c \notin reqs'[r].vcPending
          /\ db = c) =>
             (db' = Null /\ conns'[c].closed)]_vars

\* C7 witness: the handler closed the manager's connection for a sibling's
\* upgrade, and the manager holds no handle.
C7_Witness ==
    \E r \in 1..Len(reqs) :
        /\ reqs[r].task = 0
        /\ \E c \in reqs[r].vcClosed : conns[c].owner = "mgr" /\ conns[c].closed
        /\ db = Null

C9_CloseIdempotentThenReopen ==
    [][LET once == Close(db, conns)
           twice == Close(once.db, once.conns)
       IN  /\ once.db = Null
           /\ twice = once
           /\ db # Null => once.conns[db].closed
           /\ db = Null => once.conns = conns
           /\ \A t \in Tasks :
                (db = Null /\ tasks[t].pc = "idle" /\ tasks'[t].pc # "idle") =>
                    /\ tasks'[t].pc = "opening"
                    /\ Len(reqs') = Len(reqs) + 1
                    /\ tasks'[t].req = Len(reqs')
           /\ \A t \in Tasks :
                (/\ tasks[t].pc = "opening" /\ tasks'[t].pc = "idle"
                 /\ \/ reqs[tasks[t].req].phase = "committed"
                    \/ /\ reqs[tasks[t].req].phase = "queued"
                       /\ reqs'[tasks[t].req].phase = "done"
                       /\ Len(conns') = Len(conns) + 1) =>
                    /\ db' # Null /\ ~conns'[db'].closed
                    /\ db' = Len(conns') /\ db' # db
                    /\ outcome'.pc = "tx" \/ outcome'.error = "NotFoundError"]_vars

\* C9 witness: a connection of the manager was closed by close(), a later
\* operation reopened, and holds a transaction on the new open connection.
C9_Witness ==
    /\ dbVersion = 1 /\ reconciled[1] = 1
    /\ db # Null /\ ~conns[db].closed
    /\ \E c \in 1..Len(conns) : c < db /\ conns[c].owner = "mgr" /\ conns[c].closed
    /\ outcome.pc = "tx"

\* C10: getDB never hands a closed connection to an operation while the
\* manager still holds it: a handle the engine closed is detected by the
\* probe and replaced by a fresh connection.
C10_ProbeDetectsLostConnection ==
    \A t \in Tasks :
        (tasks[t].pc = "haveDB" /\ tasks[t].handle = db) => ~conns[db].closed

\* C11: once the cursor request of findByIndexRange has reported an error,
\* after any number of collected records, the call is rejected with the error
\* of the cursor request and carries no records; no later step changes that.
C11_CursorErrorRejects ==
    cursor = CursorFailed => rangeCall = Rejected("cursorRequest.error")

\* C11 witness: the cursor request failed after two records were collected and
\* the call is rejected.
C11_Witness ==
    /\ cursor = CursorFailed
    /\ Len(results) = 2
    /\ rangeCall.state = "rejected"

\* C17: a resolved findByIndexRange with direction 'next' holds its records in
\* ascending order of the index key, with direction 'prev' in descending
\* order; over the whole range (offset 0, no limit) 'next' delivers every
\* record of the range and 'prev' delivers exactly the reverse of the 'next'
\* sequence.
C17_PrevReversesNext ==
    rangeCall.state = "resolved" =>
        LET got == rangeCall.value
            whole == options.offset = 0 /\ options.limit = Infinity
            forward == CursorSequence(index, options.query, "next")
        IN  /\ options.direction = "next" =>
                /\ \A i, j \in 1..Len(got) : i < j => got[i].age <= got[j].age
                /\ whole => /\ Len(got) = Cardinality(InRange(index, options.query))
                            /\ {got[i].id : i \in 1..Len(got)} = InRange(index, options.query)
            /\ options.direction = "prev" =>
                /\ \A i, j \in 1..Len(got) : i < j => got[i].age >= got[j].age
                /\ whole => /\ Len(got) = Len(forward)
                            /\ \A i \in 1..Len(got) : got[i] = forward[Len(forward) + 1 - i]

\* C17 witness: ages inserted as 30, 25, 30, 40, the whole index walked with
\* direction 'prev': 40, then the two records of age 30 in reverse primary key
\* order, then 25.
C17_Witness ==
    /\ index = <<30, 25, 30, 40>>
    /\ options = [query |-> NullQuery, direction |-> "prev", limit |-> Infinity, offset |-> 0]
    /\ rangeCall = ResolvedWith(<<[id |-> 4, age |-> 40], [id |-> 3, age |-> 30],
                                  [id |-> 1, age |-> 30], [id |-> 2, age |-> 25]>>)

\* The declared store of that name, when the schema declares one.
Declared(schema, storeName) ==
    {schema[i] : i \in {j \in 1..Len(schema) : schema[j].name = storeName}}

\* C12: an upgrade of the manager that commits leaves every store named both
\* in the database and in the declaration with the records, key path and
\* auto-increment flag it had; after it every declared store exists and every
\* index declared in an index list exists, so that afterwards a write to a
\* declared store and a query on a declared index are not rejected.
C12_UpgradeKeepsRecords ==
    [][/\ (persistedVersion' # persistedVersion) =>
            /\ \A name \in (DOMAIN persistedStores) \cap NamesOf(stores) :
                  /\ name \in DOMAIN persistedStores'
                  /\ persistedStores'[name].records = persistedStores[name].records
                  /\ persistedStores'[name].keyPath = persistedStores[name].keyPath
                  /\ persistedStores'[name].autoIncrement = persistedStores[name].autoIncrement
            /\ \A i \in 1..Len(stores) :
                  /\ stores[i].name \in DOMAIN persistedStores'
                  /\ stores[i].hasIndexes =>
                        NamesOf(stores[i].indexes) \subseteq
                            DOMAIN persistedStores'[stores[i].name].indexes
       /\ (outcome'.pc = "rejected" /\ outcome'.error = "NotFoundError") =>
            \A declared \in Declared(stores, outcome'.store) :
                /\ outcome'.op = "findByIndex"
                /\ ~declared.hasIndexes \/ outcome'.index \notin NamesOf(declared.indexes)
      ]_vars

\* C12 witness: the store users held a record before the upgrade to version 2
\* that added by_city and products; the record is still there, a record was
\* written to products and the query on by_city resolved.
C12_Witness ==
    /\ persistedVersion = 2 /\ dbVersion = 2
    /\ NamesOf(stores) = {"users", "products"}
    /\ DOMAIN persistedStores = {"users", "products"}
    /\ 1 \in persistedStores["users"].records
    /\ persistedStores["users"].autoIncrement
    /\ 1 \in persistedStores["products"].records
    /\ outcome = OpOutcome("findByIndex", "users", "by_city", "none")

\* C13: an upgrade of the manager that commits leaves every index whose name
\* is both persisted and declared for a store as it was: the same key path,
\* unique and multiEntry, whatever the declaration gives.
C13_SharedIndexUntouched ==
    [][(persistedVersion' # persistedVersion) =>
          \A i \in 1..Len(stores) :
             LET name == stores[i].name
             IN  (name \in DOMAIN persistedStores /\ stores[i].hasIndexes) =>
                    \A n \in (DOMAIN persistedStores[name].indexes)
                                \cap NamesOf(stores[i].indexes) :
                        /\ n \in DOMAIN persistedStores'[name].indexes
                        /\ persistedStores'[name].indexes[n] =
                               persistedStores[name].indexes[n]
      ]_vars

\* C13 witness: the database is at version 2 with by_age declared unique on
\* (age, id), and the persisted by_age is still the one created at version 1:
\* key path age, not unique.
C13_Witness ==
    /\ persistedVersion = 2 /\ dbVersion = 2
    /\ \E i \in 1..Len(stores) :
          stores[i].name = "users" /\ stores[i].hasIndexes
             /\ \E j \in 1..Len(stores[i].indexes) : stores[i].indexes[j] = ByAgeUnique
    /\ "users" \in DOMAIN persistedStores
    /\ "by_age" \in DOMAIN persistedStores["users"].indexes
    /\ persistedStores["users"].indexes["by_age"] = IndexDefinition(ByAge)

\* C14: an add of data whose email another record of the store has (the unique
\* index by_email) never succeeds and never resolves: once its request has
\* failed the call is rejected with the error of the request, and no step of
\* the call changes the records of the store.
C14_UniqueCollisionRejects ==
    [][LET collides ==
               /\ write.op = "add"
               /\ \E rec \in objectStore.records :
                      rec.email = write.data.email /\ rec.id # write.data.id
       IN  (collides /\ write' = write) =>
               /\ request'.state # "success"
               /\ writeCall'.state # "resolved"
               /\ request'.state = "error" =>
                      /\ writeCall'.state = "rejected"
                      /\ writeCall'.reason = request'.error
               /\ objectStore' = objectStore]_vars

\* C14 witness: the store holds one record, an add of another key with the
\* email of that record was rejected with ConstraintError, the transaction is
\* aborted and the store still holds that one record.
C14_Witness ==
    /\ write.op = "add" /\ write.data.id # NoId
    /\ Cardinality(objectStore.records) = 1
    /\ \E rec \in objectStore.records :
          rec.email = write.data.email /\ rec.id # write.data.id
    /\ ~KeyExists(objectStore, KeyOf(objectStore.shape, write.data))
    /\ request.error = "ConstraintError"
    /\ writeCall = Rejected("ConstraintError")
    /\ transaction.state = "aborted"

\* C15: when a put of an explicit key resolved and the call before it was a
\* resolved put of the same explicit key, both calls returned that key and the
\* store holds exactly one record under it, equal to the data of the second put.
C15_PutTwiceLeavesSecond ==
    LET key == KeyOf(objectStore.shape, write.data)
    IN  (/\ write.op = "put" /\ writeCall.state = "resolved"
         /\ write.prev.op = "put" /\ write.prev.call.state = "resolved"
         /\ write.data.id # NoId
         /\ KeyOf(objectStore.shape, write.prev.data) = key) =>
            /\ write.prev.call.value = key
            /\ writeCall.value = key
            /\ {rec \in objectStore.records : KeyOf(objectStore.shape, rec) = key}
                   = {write.data}

\* C15 witness: two resolved puts of key 1 with different emails; the store
\* holds the record of the second.
C15_Witness ==
    /\ write.op = "put" /\ writeCall = ResolvedWith(<<1>>)
    /\ write.prev.op = "put" /\ write.prev.call = ResolvedWith(<<1>>)
    /\ write.prev.data = [id |-> 1, email |-> "alice@example.com"]
    /\ write.data = [id |-> 1, email |-> "bob@example.com"]
    /\ objectStore.records = {write.data}

\* C16: when a get resolved and the call before it was an add or a put that
\* resolved with the key the get asks for, the get returns the data of that
\* call, with the returned key at the key path when the data had none; and the
\* first call on the empty store, when it stores data without a key, returns
\* key 1.
C16_GetReturnsInput ==
    /\ (/\ write.op = "get" /\ writeCall.state = "resolved"
         /\ write.prev.op \in {"add", "put"} /\ write.prev.call.state = "resolved"
         /\ write.key = write.prev.call.value) =>
            /\ writeCall.value = IF write.prev.data.id = NoId
                                  THEN [write.prev.data EXCEPT !.id = write.key[1]]
                                  ELSE write.prev.data
            /\ KeyOf(objectStore.shape, writeCall.value) = write.key
    /\ (/\ write.op \in {"add", "put"} /\ writeCall.state = "resolved"
         /\ write.data.id = NoId /\ write.prev.op = "none") =>
            writeCall.value = <<1>>

\* C16 witness: on the store with a key generator, a put of data without id
\* resolved with key 1 and the get of key 1 returned the data with id 1.
C16_Witness ==
    /\ objectStore.shape = "auto"
    /\ write.prev.op = "put"
    /\ write.prev.data = [id |-> NoId, email |-> "alice@example.com"]
    /\ write.prev.call = ResolvedWith(<<1>>)
    /\ write.op = "get" /\ write.key = <<1>>
    /\ writeCall = ResolvedWith([id |-> 1, email |-> "alice@example.com"])

\* C18: a resolved delete leaves no record under its key, a get of that key
\* right after it resolves to undefined, and the only change a delete makes to
\* the records of the store is the removal of the record under its key.
C18_DeleteRemovesOnlyKey ==
    [][/\ (write'.op = "delete" /\ writeCall'.state = "resolved") =>
               ~KeyExists(objectStore', write'.key)
       /\ (/\ write'.op = "get" /\ writeCall'.state = "resolved"
            /\ write'.prev.op = "delete" /\ write'.prev.call.state = "resolved"
            /\ write'.key = write'.prev.key) =>
               writeCall'.value = Undefined
       /\ (write.op = "delete" /\ write' = write) =>
               \/ objectStore' = objectStore
               \/ objectStore'.records =
                      {rec \in objectStore.records :
                          KeyOf(objectStore.shape, rec) # write.key}]_vars

\* C18 witness: key 1 was deleted, the get of key 1 after it resolved to
\* undefined, and the record under key 2 is still in the store.
C18_Witness ==
    /\ objectStore.shape = "auto"
    /\ write.prev.op = "delete" /\ write.prev.key = <<1>>
    /\ write.prev.call.state = "resolved"
    /\ write.op = "get" /\ write.key = <<1>>
    /\ writeCall = ResolvedWith(Undefined)
    /\ objectStore.records = {[id |-> 2, email |-> "bob@example.com"]}
    /\ objectStore.generator = 3

\* C19: when the entry point (index.ts) has opened the database at the version
\* of the instance, every declared store and every declared index of it is in
\* the database, and a query on a declared index of a declared store is not
\* rejected with NotFoundError.
C19_EntryUpgradeAddsIndexAndStore ==
    (persistedVersion = dbVersion) =>
        /\ \A i \in 1..Len(stores) :
              /\ stores[i].name \in DOMAIN persistedStores
              /\ NamesOf(stores[i].indexes) \subseteq
                     DOMAIN persistedStores[stores[i].name].indexes
        /\ (/\ outcome.pc = "rejected" /\ outcome.error = "NotFoundError"
            /\ outcome.op = "findByIndex") =>
              \A declared \in Declared(stores, outcome.store) :
                  outcome.index \notin NamesOf(declared.indexes)

\* C20: a write of the entry point (index.ts) that resolved is not one whose
\* transaction was aborted.
C20_EntryWriteAwaitsCommit ==
    (write.op \in WriteOps /\ writeCall.state = "resolved") =>
        transaction.state # "aborted"

\* C21: when findByIndexRange of the entry point (index.ts) resolves with a
\* limit >= 0 and an offset >= 0, it returns max(0, min(limit, N - offset))
\* records, N being the number of records the cursor visits, and they are the
\* records at positions offset+1 .. offset+limit of the cursor sequence; with
\* limit 0 it returns none.
C21_EntryRangeReturnsSlice ==
    (rangeCall.state = "resolved" /\ options.limit # Infinity) =>
        LET N == Len(Visited)
            rest == IF N > options.offset THEN N - options.offset ELSE 0
            expected == IF options.limit < rest THEN options.limit ELSE rest
        IN  /\ Len(results) = expected
            /\ \A i \in 1..expected : results[i] = Visited[options.offset + i]

C23_CountersBounded ==
    rangeCall.state # "none" =>
        /\ advanced <= options.offset
        /\ options.limit # Infinity => count <= options.limit
        /\ count > 0 => advanced = options.offset
        /\ count = Len(results)
        /\ cursor > 0 => cursor - 1 = advanced + count
        /\ options.limit # Infinity => advanced + count <= options.offset + options.limit

\* C23 witness: four records, offset 1 and limit 2: the call resolved at the
\* fourth record after one skip and two collected records.
C23_Witness ==
    /\ Len(Visited) = 4
    /\ options.offset = 1 /\ options.limit = 2
    /\ rangeCall.state = "resolved"
    /\ advanced = 1 /\ count = 2

\* C24: every call of findByIndexRange settles; the cursor request is answered
\* at no more than min(N, offset + limit) + 1 positions, N being the number of
\* records the cursor visits; and the answer past the last record resolves the
\* call with the records collected so far.
C24_RangeTerminates ==
    /\ [](cursor > 0 =>
            LET N == Len(Visited)
                most == IF options.limit = Infinity \/ N < options.offset + options.limit
                        THEN N ELSE options.offset + options.limit
            IN  cursor <= most + 1)
    /\ [][(cursor > Len(Visited) /\ cursor' = 0) =>
              rangeCall' = ResolvedWith(results)]_vars
    /\ (rangeCall.state = "pending") ~> (rangeCall.state \in {"resolved", "rejected"})

\* C24 witness: two records, offset 1 and limit 2: the cursor ended before the
\* limit was met and the call resolved with the one record collected.
C24_Witness ==
    /\ Len(Visited) = 2
    /\ options.offset = 1 /\ options.limit = 2
    /\ rangeCall = ResolvedWith(results)
    /\ Len(results) = 1

\* C25: the promise of an open, of a request, of a transaction and of an
\* operation, once settled, keeps its state, value and reason at every later
\* event; an operation leaves its wait for the open only with an outcome (it
\* goes on to its transaction, or is rejected); when the engine has finished
\* the transaction of a write the call is settled, and when the cursor request
\* of a range query has ended the call is settled.
C25_SettledExactlyOnce ==
    [][LET Settled(p) == p.state \in {"resolved", "rejected"}
       IN  /\ \A r \in 1..Len(reqs) :
                 (reqs[r].promise # "pending" /\ reqs'[r].phase # "done") =>
                     /\ reqs'[r].promise = reqs[r].promise
                     /\ reqs'[r].reason = reqs[r].reason
           /\ \A t \in Tasks :
                 /\ tasks'[t].pc = "opening" =>
                       /\ reqs'[tasks'[t].req].phase # "done"
                       /\ reqs'[tasks'[t].req].promise = "pending"
                 /\ (tasks[t].pc = "opening" /\ tasks'[t].pc # "opening") =>
                       outcome'.pc \in {"tx", "rejected"}
           /\ Settled(requestPromise) => requestPromise' = requestPromise
           /\ Settled(transactionPromise) => transactionPromise' = transactionPromise
           /\ Settled(writeCall) => writeCall' = writeCall
           /\ Settled(rangeCall) => rangeCall' = rangeCall
           /\ transaction'.state \in {"complete", "aborted"} => Settled(writeCall')
           /\ (rangeCall'.state # "none" /\ cursor' \in {0, CursorFailed}) =>
                 Settled(rangeCall')
      ]_vars

\* C25 witness: the operation opened the database and got its transaction;
\* its add failed at the request, the error reached the transaction and the
\* transaction was aborted: three events, and the call is rejected once, with
\* the error of the request.
C25_Witness ==
    /\ db # Null /\ outcome.pc = "tx"
    /\ write.op = "add" /\ request.state = "error"
    /\ transaction.state = "aborted"
    /\ requestPromise = Rejected("ConstraintError")
    /\ transactionPromise = Rejected("none")
    /\ writeCall = Rejected("ConstraintError")
\* C26: after an open attempt of the manager was rejected (upgrade failed,
\* blocked, or engine error), the manager holds no handle: the step that
\* rejects leaves this.db null, and the rejected attempt never puts a
\* connection into this.db afterwards, so the next operation finds no handle
\* and issues a fresh open.
C26_RejectedOpenLeavesNoHandle ==
    [][\A r \in 1..Len(reqs) :
          /\ (reqs[r].task # 0 /\ reqs[r].promise = "pending"
                /\ reqs'[r].promise = "rejected") => db' = Null
          /\ (reqs[r].task # 0 /\ reqs[r].promise = "rejected") => db' = Null
      ]_vars

\* C27: writes are never retried. Every call of add, put, delete or clear
\* places one request in one transaction when it starts, and until it
\* returns no further request is placed and no further transaction is
\* created, whether the request succeeds or fails and whether the connection
\* was opened or reopened for the call; the records of the store change in
\* no step but the one in which that request succeeds.
C27_WritesNeverRetried ==
    [][/\ (writeCall.state # "pending" /\ writeCall'.state = "pending") =>
             /\ request'.state = "pending"
             /\ transaction'.state = "active"
             /\ transaction'.store = objectStore
       /\ (request'.state = "pending" /\ request.state # "pending") =>
             (writeCall.state # "pending" /\ writeCall'.state = "pending")
       /\ (transaction'.state = "active" /\ transaction.state # "active") =>
             (writeCall.state # "pending" /\ writeCall'.state = "pending")
       /\ (write.op \in {"add", "put", "delete", "clear"}
             /\ writeCall.state = "pending") =>
             /\ write' = write
             /\ transaction'.store # transaction.store =>
                   (request.state = "pending" /\ request'.state = "success")
             /\ objectStore' # objectStore =>
                   (transaction.state = "active" /\ transaction'.state = "complete"
                      /\ objectStore' = transaction.store)
      ]_vars

\* C27 witness: the manager closed and reopened its connection, then add of a
\* record whose email is taken was rejected after its one request failed and
\* its one transaction aborted; the store is as it was.
C27_Witness ==
    /\ db # Null /\ ~conns[db].closed
    /\ \E c \in 1..Len(conns) : c < db /\ conns[c].owner = "mgr" /\ conns[c].closed
    /\ write.op = "add"
    /\ request.state = "error" /\ transaction.state = "aborted"
    /\ writeCall = Rejected("ConstraintError")
    /\ objectStore = SettleStore

\* C28: findByIndexRange, findByIndex and countByIndex called with a store
\* name or an index name the database does not have are rejected, and the
\* call leaves the handle of the manager and the connection as they were; a
\* query with names that exist, called after such a rejection on the open
\* connection, resolves.
C28_MissingNameRejects ==
    [][(outcome' # outcome /\ "op" \in DOMAIN outcome' /\ outcome'.op \in IndexOps) =>
          LET missing ==
                  \/ outcome'.store \notin DOMAIN persistedStores
                  \/ outcome'.index \notin DOMAIN persistedStores[outcome'.store].indexes
          IN  /\ missing => /\ outcome'.pc = "rejected"
                            /\ db' = db /\ conns' = conns
                            /\ persistedStores' = persistedStores
              /\ (~missing /\ outcome'.after = "NotFoundError" /\ ~conns[db].closed) =>
                    outcome'.pc = "resolved"
      ]_vars

\* C28 witness: countByIndex on a missing index of users was rejected with
\* NotFoundError and the manager still holds its open connection.
C28_Witness ==
    /\ db # Null /\ ~conns[db].closed
    /\ "op" \in DOMAIN outcome
    /\ outcome.op = "countByIndex" /\ outcome.store = "users"
    /\ outcome.store \in DOMAIN persistedStores
    /\ outcome.index \notin DOMAIN persistedStores["users"].indexes
    /\ outcome.pc = "rejected" /\ outcome.error = "NotFoundError"
    /\ outcome.after = "NotFoundError"

\* C29: the unload hook is kept per manager: every manager in the window that
\* holds an open connection has a beforeunload listener of its own that
\* closes it, whatever the other manager opened or closed.
C29_EachManagerHasItsHook ==
    \A m \in Managers : managers[m].db => window.listeners[m] >= 1

\* C30: over any sequence of open, close and reopen, a manager has registered
\* at most one beforeunload listener in its window.
C30_AtMostOneListener ==
    \A m \in Managers : window.listeners[m] <= 1

\* C31: an upgrade never changes the key path or the auto-increment flag of a
\* store that already exists: every store named both in the database and in
\* the declaration has, after the upgrade, the key path and the flag it had
\* before, whatever the declaration gives for them.
C31_UpgradeKeepsKeyPath ==
    [][(persistedVersion' # persistedVersion) =>
          \A i \in 1..Len(stores) :
             LET name == stores[i].name
             IN  name \in DOMAIN persistedStores =>
                    /\ name \in DOMAIN persistedStores'
                    /\ persistedStores'[name].keyPath = persistedStores[name].keyPath
                    /\ persistedStores'[name].autoIncrement =
                          persistedStores[name].autoIncrement
      ]_vars

\* C31 witness: the database was upgraded to version 2 with a declaration
\* that gives users the key path email without auto-increment, and users
\* still has the key path id with auto-increment it was created with.
C31_Witness ==
    /\ persistedVersion = 2 /\ dbVersion = 2
    /\ outcome.pc = "resolved" /\ outcome.op = "open"
    /\ \E i \in 1..Len(stores) :
          /\ stores[i].name = "users"
          /\ stores[i].keyPath = <<"email">> /\ ~stores[i].autoIncrement
    /\ "users" \in DOMAIN persistedStores
    /\ persistedStores["users"].keyPath = <<"id">>
    /\ persistedStores["users"].autoIncrement

\* C32: a resolved findByIndexRange with direction 'nextunique' or
\* 'prevunique' holds at most one record per index value, the first of that
\* value (lowest primary key), and offset and limit count index values: with
\* D distinct values in the range it holds max(0, min(limit, D - offset))
\* records, whose values are the values at positions offset+1 .. of the
\* distinct values in ascending (nextunique) or descending (prevunique) order.
C32_UniqueDirectionCollapses ==
    (rangeCall.state = "resolved" /\ options.direction \in {"nextunique", "prevunique"}) =>
        LET got == rangeCall.value
            ids == InRange(index, options.query)
            values == {index[id] : id \in ids}
            D == Cardinality(values)
            Min(a, b) == IF a < b THEN a ELSE b
            Max(a, b) == IF a > b THEN a ELSE b
            expected == IF options.limit = Infinity THEN Max(0, D - options.offset)
                        ELSE Max(0, Min(options.limit, D - options.offset))
            \* the position of value v among the distinct values, in cursor order
            Position(v) == IF options.direction = "nextunique"
                           THEN Cardinality({w \in values : w <= v})
                           ELSE Cardinality({w \in values : w >= v})
        IN  /\ Len(got) = expected
            /\ \A i, j \in 1..Len(got) : i # j => got[i].age # got[j].age
            /\ \A i \in 1..Len(got) :
                  /\ got[i].id \in ids /\ index[got[i].id] = got[i].age
                  /\ \A id \in ids : index[id] = got[i].age => got[i].id <= id
                  /\ Position(got[i].age) = options.offset + i

\* C32 witness: ages inserted as 30, 25, 30, 40, the whole index with
\* 'nextunique', limit 2 and offset 1: the first record of age 30 and the
\* record of age 40, the second record of age 30 being passed over.
C32_Witness ==
    /\ index = <<30, 25, 30, 40>>
    /\ options = [query |-> NullQuery, direction |-> "nextunique", limit |-> 2, offset |-> 1]
    /\ rangeCall = ResolvedWith(<<[id |-> 1, age |-> 30], [id |-> 4, age |-> 40]>>)

\* C33: at any time at most one connection the manager opened is unclosed,
\* and it is the one in the manager's handle (a connection whose open request
\* the engine has not finished yet, in its upgrade, is not counted).
C33_OneOpenConnectionInHandle ==
    LET inUpgrade == {reqs[r].conn : r \in Unfinished}
        mine == {c \in OpenConns(conns) : conns[c].owner = "mgr" /\ c \notin inUpgrade}
    IN  /\ Cardinality(mine) <= 1
        /\ \A c \in mine : c = db

\* C34: a versionchange delivered to a connection the manager opened results
\* in that same connection being closed.
C34_VersionChangeClosesItsConnection ==
    [][\A r \in ReqIds, c \in 1..Len(conns) :
         (/\ r <= Len(reqs) /\ reqs[r].phase = "versionchange"
          /\ c \in reqs[r].vcPending /\ c \notin reqs'[r].vcPending
          /\ conns[c].owner = "mgr") =>
             conns'[c].closed]_vars

\* C35: close() is final for an open in flight: when close() was called while
\* the open was pending and no operation is issued afterwards, then once the
\* engine has delivered every event of the open the manager holds no handle
\* and no connection it opened is open.
C35_CloseIsFinal ==
    (\A r \in ManagerReqs : reqs[r].phase = "done") =>
        /\ db = Null
        /\ \A c \in OpenConns(conns) : conns[c].owner # "mgr"

\* C36: an open of the manager that was rejected as blocked has no later
\* effect: from the rejection on, no event of that request puts a connection
\* into this.db or changes the persisted version or stores, also when the
\* blocking connection closes afterwards.
C36_BlockedOpenHasNoLaterEffect ==
    [][\A r \in 1..Len(reqs) :
          (/\ reqs[r].task # 0
           /\ reqs[r].promise = "rejected"
           /\ reqs[r].reason = "Database connection is blocked") =>
              /\ db' \in {db, Null}
              /\ persistedVersion' = persistedVersion
              /\ persistedStores' = persistedStores
      ]_vars

TerminalStep == terminal' # terminal

\* The forward-ordered result of the builder's index and query: direction
\* 'next', no limit, no offset.
ForwardResult(b, idx) ==
    ToArray([b EXCEPT !.options = NewBuilder.options], idx)

\* Claim C38: toArray, count, first and last leave the builder's index, query,
\* limit, offset and direction as they were, and first() returns the first
\* element of the forward-ordered result whatever was called before.
C38_TerminalOperationsLeaveBuilder ==
    [][TerminalStep =>
          /\ builder' = builder
          /\ terminal'.op = "first" /\ builder.indexName # "" /\ builder.options.offset = 0
                => terminal'.array = First0(ForwardResult(builder, index))]_vars

\* Claim C39: with no limit and no offset, count() is the length of toArray()
\* of the same builder: without an index, with an index and no query, and
\* with an index and any query value.
C39_CountIsLengthOfToArray ==
    [][/\ TerminalStep
       /\ terminal'.op = "count"
       /\ builder.options.limit = Infinity
       /\ builder.options.offset = 0
       => terminal'.number = Len(ToArray(builder, index))]_vars

====
